---- MODULE Spec2Model ----
(***************************************************************************)
(* A state-machine model of the Forthic interpreter core                   *)
(* (forthic/interpreter.py, forthic/module.py, forthic/literals.py,       *)
(* forthic/tokenizer.py, forthic/modules/standard/core_module.py).         *)
(*                                                                         *)
(* Objects with identity (words, modules, variables, the registered-       *)
(* modules dict) live in heaps indexed by allocation order.  Interpreter   *)
(* fields are functions over InterpIds, so that an interpreter and its     *)
(* duplicate can be told apart.  A source string is abstracted to the      *)
(* sequence of tokens its tokenizer yields: the environment picks the next *)
(* token of the running source when the interpreter asks for it.  The     *)
(* Tokenizer itself is modelled at the level of characters, over the       *)
(* string source_text.                                                     *)
(***************************************************************************)
EXTENDS Integers, Sequences, FiniteSets, TLC

\* ------------------------------------------------------------------ state
VARIABLES
    \* heaps of objects: Word, Module, Variable, and the dicts of
    \* registered modules (one dict is shared by an interpreter and its
    \* duplicates)
    words, modules, variables, registries,
    \* Interpreter fields, one entry per interpreter
    exists, timezone, stack, app_module, module_stack, registered_modules,
    tokenizer_stack, previous_token, handle_error, max_attempts,
    is_compiling, is_memo_definition, cur_definition, string_location,
    literal_handlers,
    \* the runs suspended in a word that called run(), outermost first
    run_stack,
    \* what the host's last call of stack_pop or stack_peek returned or raised
    returned,
    \* where each interpreter's run() stands: "idle" (no run), "direct"
    \* (_run_with_tokenizer without recovery), "recovery" (_continue inside
    \* _execute_with_recovery), "handler" (awaiting the recovery callback);
    \* num_attempts of the innermost _execute_with_recovery frame; the
    \* exception in flight or raised by the last run; how the last run ended
    pc, num_attempts, error, outcome,
    \* the environment: sources handed to run() so far, tokens fetched,
    \* values TICK has produced
    sources, fetched, ticks,
    \* history: calls of the recovery callback in the current run, runs of
    \* each memo's body, the data stack as the body left it in the last
    \* completed refresh of each memo, error-handler calls made for the last
    \* token
    handler_calls, body_runs, body_stack, eh_log,
    \* a Tokenizer at the level of characters: the string it was constructed
    \* over, the Tokenizer object, and what its last next_token did
    source_text, lexer, lexed

\* ---------------------------------------------------------------- bounds
\* Tokens the interpreters fetch in all, over all their runs.
MaxTokens == 5
\* Depth of the Python call stack available to _execute_with_recovery.
RecursionLimit == 6
\* Error handlers the host attaches to one word.
MaxErrorHandlers == 2
\* Tokens an interpreter and its duplicate fetch between them.
MaxDupTokens == 4
\* Variable objects the host creates over the resets of an interpreter.
MaxVariables == 2
\* Longest list of literal handlers: the six standard ones and two more.
MaxLiteralHandlers == 8
\* Module objects of an interpreter, its duplicate and their host.
MaxModules == 8
\* Characters of a source handed to a Tokenizer.
MaxSourceLen == 4
MaxQuotedLen == 6
\* Characters after the : or @: of a definition.
MaxNameLen == 3

InterpIds == {1, 2}

\* ------------------------------------------------------------- locations
\* CodeLocation, reduced to the source it belongs to and the ordinal of the
\* token in that source; NoLoc is Python's None.
NoLoc == [source |-> 0, pos |-> 0]
Loc(src, p) == [source |-> src, pos |-> p]

\* ---------------------------------------------------------------- values
NoItems == <<>>
Val(t, n, s, loc, items) == [t |-> t, n |-> n, s |-> s, loc |-> loc, items |-> items]
None == Val("none", 0, "", NoLoc, NoItems)
IntVal(n) == Val("int", n, "", NoLoc, NoItems)
BoolVal(b) == Val("bool", IF b THEN 1 ELSE 0, "", NoLoc, NoItems)
FloatVal(s) == Val("float", 0, s, NoLoc, NoItems)
TimeVal(s) == Val("time", 0, s, NoLoc, NoItems)
StrVal(s) == Val("str", 0, s, NoLoc, NoItems)
PositionedString(s, loc) == Val("pstr", 0, s, loc, NoItems)
StartArrayToken(loc) == Val("token", 0, "[", loc, NoItems)
ArrayVal(items) == Val("array", 0, "", NoLoc, items)
VarHandle(id) == Val("var", id, "", NoLoc, NoItems)

\* ---------------------------------------------------------------- errors
\* `inner` is the class of the exception a WordExecutionError wraps at the
\* bottom of its chain of inner errors; `token` is history: where the token
\* of the failing sub-word stood in the text of the definition.
Err(kind, location, definition_location, inner, name) ==
    [kind |-> kind, location |-> location,
     definition_location |-> definition_location, inner |-> inner, name |-> name,
     token |-> NoLoc]
NoError == Err("none", NoLoc, NoLoc, "none", "")
SimpleError(kind) == Err(kind, NoLoc, NoLoc, "none", "")

\* ----------------------------------------------------------- word objects
\* A word of a module dictionary (heap object).  `words` is the body of a
\* DefinitionWord; `target` is the wrapped word of a memo, memo-bang,
\* memo-bang-at or ExecuteWord; `handler` names the host coroutine of a
\* ModuleWord.
WordObj(kind, name) ==
    [kind |-> kind, name |-> name, location |-> NoLoc,
     error_handlers |-> <<>>, value |-> None, words |-> <<>>,
     has_value |-> FALSE, target |-> 0, handler |-> ""]

\* One entry of a definition body (or the word a token resolves to): a
\* reference to a shared dictionary word (ref > 0), or a word created for
\* this token alone (ref = 0: a PushValueWord, EndArrayWord,
\* StartModuleWord or EndModuleWord), carried inline.  `token` is history:
\* the location of the token that put the entry into a definition body.
Item(ref, kind, name, value, location) ==
    [ref |-> ref, kind |-> kind, name |-> name, value |-> value,
     location |-> location, token |-> NoLoc]
RefItem(id) == Item(id, "ref", "", None, NoLoc)
PushValueWord(name, value) == Item(0, "PushValueWord", name, value, NoLoc)
EndArrayWord == Item(0, "EndArrayWord", "]", None, NoLoc)
StartModuleWord(name) == Item(0, "StartModuleWord", name, None, NoLoc)
EndModuleWord == Item(0, "EndModuleWord", "}", None, NoLoc)
NoItem == Item(0, "none", "", None, NoLoc)

\* --------------------------------------------------------------- maps
\* A Python dict whose iteration order is not observed: a function on the
\* set of its keys.
EmptyMap == <<>>
Has(map, k) == k \in DOMAIN map
Put(map, k, v) == [x \in (DOMAIN map) \cup {k} |-> IF x = k THEN v ELSE map[x]]

Max(S) == CHOOSE x \in S : \A y \in S : y <= x
Min(S) == CHOOSE x \in S : \A y \in S : x <= y

\* --------------------------------------------------------- module objects
NewModule(name) ==
    [name |-> name, words |-> <<>>, exportable |-> <<>>,
     variables |-> EmptyMap, modules |-> EmptyMap, module_prefixes |-> <<>>]

\* -------------------------------------------------------------- heaps
\* The operators below take and return a world W: a record with one field
\* per variable of the model (see World).

AllocWord(W, w) == [W EXCEPT !.words = Append(@, w)]
AllocModule(W, m) == [W EXCEPT !.modules = Append(@, m)]
AllocVariable(W, v) == [W EXCEPT !.variables = Append(@, v)]

\* Word.set_location
set_location(W, id, location) == [W EXCEPT !.words[id].location = location]

\* Module.add_word
add_word(W, m, id) == [W EXCEPT !.modules[m].words = Append(@, id)]

\* Module.add_exportable_word
add_exportable_word(W, m, id) ==
    [W EXCEPT !.modules[m].words = Append(@, id),
              !.modules[m].exportable = Append(@, W.words[id].name)]

\* Module.add_module_word: a ModuleWord around a host handler, exportable.
add_module_word(W, m, word_name, word_func) ==
    LET word == [WordObj("ModuleWord", word_name) EXCEPT !.handler = word_func]
        W1 == AllocWord(W, word)
    IN add_exportable_word(W1, m, Len(W1.words))

\* Module.add_memo_words: the memo word, then its ! and !@ variants.  The
\* wrapped definition is an object of its own, reachable through the memo.
add_memo_words(W, m, definition) ==
    LET W1 == AllocWord(W, definition)
        inner == Len(W1.words)
        memo_word == [WordObj("ModuleMemoWord", definition.name) EXCEPT !.target = inner]
        W2 == AllocWord(W1, memo_word)
        memo == Len(W2.words)
        bang == [WordObj("ModuleMemoBangWord", definition.name \o "!") EXCEPT !.target = memo]
        W3 == AllocWord(W2, bang)
        bang_at == [WordObj("ModuleMemoBangAtWord", definition.name \o "!@") EXCEPT !.target = memo]
        W4 == AllocWord(W3, bang_at)
    IN [W4 EXCEPT !.modules[m].words = @ \o <<memo, memo + 1, memo + 2>>]

\* Module.exportable_words: the words whose name is exportable, in order.
RECURSIVE FilterExportable(_, _, _)
FilterExportable(W, ws, names) ==
    IF ws = <<>> THEN <<>>
    ELSE IF \E k \in 1..Len(names) : names[k] = W.words[Head(ws)].name
         THEN <<Head(ws)>> \o FilterExportable(W, Tail(ws), names)
         ELSE FilterExportable(W, Tail(ws), names)

exportable_words(W, m) == FilterExportable(W, W.modules[m].words, W.modules[m].exportable)

\* A lookup in which the oldest word of a name wins.
find_dictionary_word_oldest(W, m, word_name) ==
    LET ws == W.modules[m].words
        hits == {k \in 1..Len(ws) : W.words[ws[k]].name = word_name}
    IN IF hits = {} THEN 0 ELSE ws[Min(hits)]

\* Module.find_dictionary_word: scan from most recent to oldest; 0 is None.
find_dictionary_word(W, m, word_name) ==
    LET ws == W.modules[m].words
        hits == {k \in 1..Len(ws) : W.words[ws[k]].name = word_name}
    IN IF hits = {} THEN 0 ELSE ws[Max(hits)]

\* Module.find_variable: a fresh PushValueWord holding the Variable handle.
find_variable(W, m, varname) ==
    IF Has(W.modules[m].variables, varname)
    THEN PushValueWord(varname, VarHandle(W.modules[m].variables[varname]))
    ELSE NoItem

\* Module.find_word: dictionary words first, then variables.
Module_find_word(W, m, name) ==
    LET id == find_dictionary_word(W, m, name)
    IN IF id # 0 THEN RefItem(id) ELSE find_variable(W, m, name)

\* Module.add_variable: only if the name is not taken.
add_variable(W, m, name, value) ==
    IF Has(W.modules[m].variables, name) THEN W
    ELSE LET W1 == AllocVariable(W, [name |-> name, value |-> value])
         IN [W1 EXCEPT !.modules[m].variables = Put(@, name, Len(W1.variables))]

\* {k: v.dup() for k, v in self.variables.items()}: each Variable is cloned.
RECURSIVE DupVariables(_, _, _)
DupVariables(W, vmap, names) ==
    IF names = {} THEN [W |-> W, map |-> EmptyMap]
    ELSE LET k == CHOOSE x \in names : TRUE
             rest == DupVariables(W, vmap, names \ {k})
             W1 == AllocVariable(rest.W, W.variables[vmap[k]])
         IN [W |-> W1, map |-> Put(rest.map, k, Len(W1.variables))]

\* Module.dup: a new module sharing the word objects and sub-modules, with
\* its own word list and cloned variables; module_prefixes start empty.
Module_dup(W, m) ==
    LET src == W.modules[m]
        dv == DupVariables(W, src.variables, DOMAIN src.variables)
        result == [NewModule(src.name) EXCEPT !.words = src.words,
                                              !.exportable = src.exportable,
                                              !.variables = dv.map,
                                              !.modules = src.modules]
    IN AllocModule(dv.W, result)

\* Module.register_module: record the sub-module, accumulate the prefix.
\* module_prefixes keeps the dict's insertion order (Module.copy iterates it).
Module_register_module(W, m, module_name, prefix, module) ==
    LET mp == W.modules[m].module_prefixes
        at == {k \in 1..Len(mp) : mp[k].name = module_name}
        mp1 == IF at = {} THEN Append(mp, [name |-> module_name, prefixes |-> {prefix}])
               ELSE [mp EXCEPT ![Min(at)].prefixes = @ \cup {prefix}]
    IN [W EXCEPT !.modules[m].modules = Put(@, module_name, module),
                 !.modules[m].module_prefixes = mp1]

\* An import loop that adds every word under its bare name, whatever the
\* prefix.
RECURSIVE ImportWordsBare(_, _, _, _)
ImportWordsBare(W, m, prefix, ws) ==
    IF ws = <<>> THEN W
    ELSE ImportWordsBare(add_word(W, m, Head(ws)), m, prefix, Tail(ws))

\* The loop of Module.import_module over the exportable words.
RECURSIVE ImportWords(_, _, _, _)
ImportWords(W, m, prefix, ws) ==
    IF ws = <<>> THEN W
    ELSE LET word == Head(ws)
             W1 == IF prefix = ""
                   THEN add_word(W, m, word)
                   ELSE LET prefixed_word ==
                                [WordObj("ExecuteWord", prefix \o "." \o W.words[word].name)
                                     EXCEPT !.target = word]
                            Wa == AllocWord(W, prefixed_word)
                        IN add_word(Wa, m, Len(Wa.words))
         IN ImportWords(W1, m, prefix, Tail(ws))

\* Module.import_module
Module_import_module(W, m, prefix, module) ==
    LET W1 == Module_dup(W, module)
        new_module == Len(W1.modules)
        W2 == ImportWords(W1, m, prefix, exportable_words(W1, new_module))
    IN Module_register_module(W2, m, W.modules[module].name, prefix, new_module)

\* ------------------------------------------------------------ tokenizer
\* A Tokenizer over source number `source`: `pos` tokens returned so far,
\* `token_location` the location of the token returned last, `at_eos` set
\* once the input is exhausted (next_token then returns EOS again).
Tokenizer(source) ==
    [source |-> source, pos |-> 0, token_location |-> NoLoc, at_eos |-> FALSE]

Token(type, string, location) == [type |-> type, string |-> string, location |-> location]
NoToken == Token("none", "", NoLoc)

\* Interpreter.get_tokenizer().get_token_location()
get_token_location(W, i) ==
    W.tokenizer_stack[i][Len(W.tokenizer_stack[i])].token_location

\* ------------------------------------------------------ lexical analysis
\* The Tokenizer at the level of characters: a source is a sequence of
\* one-character strings, positions count from 0 as in Python.
Whitespace == {" ", "\t", "\n", "\r", "(", ")", ","}
QuoteChars == {"\"", "'", "^"}

\* str.replace(old, new): leftmost non-overlapping occurrences.
RECURSIVE Replace(_, _, _)
Replace(cs, old, new) ==
    IF Len(cs) < Len(old) THEN cs
    ELSE IF SubSeq(cs, 1, Len(old)) = old
         THEN new \o Replace(SubSeq(cs, Len(old) + 1, Len(cs)), old, new)
         ELSE <<Head(cs)>> \o Replace(Tail(cs), old, new)

\* Tokenizer._unescape_string
_unescape_string(string) ==
    Replace(Replace(string, <<"&", "l", "t", ";">>, <<"<">>),
            <<"&", "g", "t", ";">>, <<">">>)

\* Tokenizer.__init__ with the default reference location, not streaming.
Tokenizer_init(string) ==
    [input_string |-> _unescape_string(string), input_pos |-> 0,
     line |-> 1, column |-> 1,
     token_start_pos |-> 0, token_line |-> 0, token_column |-> 0,
     token_string |-> <<>>]

\* The element of a singleton; an operator that goes through its argument
\* again and again takes it as Only({... : T \in {tokenizer}}), so that
\* the argument is evaluated once.
Only(S) == CHOOSE x \in S : TRUE

CharAt(T, index) == T.input_string[index + 1]
AtEnd(T) == T.input_pos >= Len(T.input_string)

_is_whitespace(char) == char \in Whitespace
_is_quote(char) == char \in QuoteChars

_is_triple_quote(T, index, char) ==
    /\ _is_quote(char)
    /\ index + 2 < Len(T.input_string)
    /\ CharAt(T, index + 1) = char /\ CharAt(T, index + 2) = char

_is_start_memo(T, index) ==
    /\ index + 1 < Len(T.input_string)
    /\ CharAt(T, index) = "@" /\ CharAt(T, index + 1) = ":"

\* Tokenizer._note_start_token (reference_location.start_pos is 0)
_note_start_token(T) ==
    [T EXCEPT !.token_start_pos = T.input_pos,
              !.token_line = T.line, !.token_column = T.column]

\* Tokenizer._advance_position, forwards or backwards
RECURSIVE _advance_position(_, _)
_advance_position(T, num_chars) ==
    IF num_chars = 0 THEN T
    ELSE IF num_chars > 0
         THEN _advance_position(
                  [T EXCEPT !.line = IF CharAt(T, T.input_pos) = "\n" THEN @ + 1 ELSE @,
                            !.column = IF CharAt(T, T.input_pos) = "\n" THEN 1 ELSE @ + 1,
                            !.input_pos = @ + 1],
                  num_chars - 1)
         ELSE _advance_position(
                  [T EXCEPT !.line = IF CharAt(T, T.input_pos - 1) = "\n" THEN @ - 1 ELSE @,
                            !.column = IF CharAt(T, T.input_pos - 1) = "\n" THEN 1 ELSE @ - 1,
                            !.input_pos = @ - 1],
                  num_chars + 1)

\* Tokenizer._get_token_location
_get_token_location(T) ==
    [line |-> T.token_line, column |-> T.token_column,
     start_pos |-> T.token_start_pos,
     end_pos |-> T.token_start_pos + Len(T.token_string)]

\* What next_token does: the tokenizer afterwards and the Token returned,
\* or the exception raised.
Returns(T, type, string) ==
    [T |-> T, token |-> Token(type, string, _get_token_location(T)), exc |-> "none"]
Raises(T, kind) ==
    [T |-> T, token |-> Token("none", <<>>, _get_token_location(T)), exc |-> kind]

add_char(T, char) == [T EXCEPT !.token_string = Append(@, char)]

\* Tokenizer._transition_from_COMMENT: up to and including the newline,
\* which is then handed back.
RECURSIVE gather_comment(_)
gather_comment(tokenizer) ==
    Only({(
        IF AtEnd(T) THEN T
        ELSE IF CharAt(T, T.input_pos) = "\n"
             THEN _advance_position(_advance_position(add_char(T, "\n"), 1), -1)
             ELSE gather_comment(_advance_position(add_char(T, CharAt(T, T.input_pos)), 1))
        ) : T \in {tokenizer}})

comment_token(T) == Returns(T, "COMMENT", T.token_string)

\* A comment that hands its # back.
_transition_from_COMMENT_unread(T) ==
    comment_token(_advance_position(_note_start_token(T), -1))

_transition_from_COMMENT(T) == comment_token(gather_comment(_note_start_token(T)))

\* A gathering of the name that refuses only the quotes.
RECURSIVE _gather_definition_name_quotes_only(_)
_gather_definition_name_quotes_only(T) ==
    IF AtEnd(T) THEN [T |-> T, exc |-> "none"]
    ELSE IF _is_whitespace(CharAt(T, T.input_pos))
         THEN [T |-> _advance_position(T, 1), exc |-> "none"]
    ELSE IF _is_quote(CharAt(T, T.input_pos))
         THEN [T |-> _advance_position(T, 1), exc |-> "InvalidWordNameError"]
    ELSE _gather_definition_name_quotes_only(
             _advance_position(add_char(T, CharAt(T, T.input_pos)), 1))

\* Tokenizer._gather_definition_name: up to whitespace; quotes, brackets and
\* braces are refused.
RECURSIVE _gather_definition_name(_)
_gather_definition_name(tokenizer) ==
    Only({(
        IF AtEnd(T) THEN [T |-> T, exc |-> "none"]
        ELSE IF _is_whitespace(CharAt(T, T.input_pos))
             THEN [T |-> _advance_position(T, 1), exc |-> "none"]
        ELSE IF _is_quote(CharAt(T, T.input_pos)) \/ CharAt(T, T.input_pos) \in {"[", "]", "{", "}"}
             THEN [T |-> _advance_position(T, 1), exc |-> "InvalidWordNameError"]
        ELSE _gather_definition_name(
                 _advance_position(add_char(T, CharAt(T, T.input_pos)), 1))
        ) : T \in {tokenizer}})

name_token(r, type) ==
    IF r.exc # "none" THEN Raises(r.T, r.exc) ELSE Returns(r.T, type, r.T.token_string)

\* Tokenizer._transition_from_GATHER_DEFINITION_NAME
_transition_from_GATHER_DEFINITION_NAME(T) ==
    name_token(_gather_definition_name(_note_start_token(T)), "START_DEF")

\* Tokenizer._transition_from_GATHER_MEMO_NAME
_transition_from_GATHER_MEMO_NAME(T) ==
    name_token(_gather_definition_name(_note_start_token(T)), "START_MEMO")

\* Tokenizer._transition_from_START_DEFINITION: skip whitespace to the name.
RECURSIVE _transition_from_START_DEFINITION(_)
_transition_from_START_DEFINITION(tokenizer) ==
    Only({(
        IF AtEnd(T) THEN Raises(T, "InvalidWordNameError")
        ELSE IF _is_whitespace(CharAt(T, T.input_pos))
             THEN _transition_from_START_DEFINITION(_advance_position(T, 1))
        ELSE IF _is_quote(CharAt(T, T.input_pos))
             THEN Raises(_advance_position(T, 1), "InvalidWordNameError")
        ELSE _transition_from_GATHER_DEFINITION_NAME(
                 _advance_position(_advance_position(T, 1), -1))
        ) : T \in {tokenizer}})

\* Tokenizer._transition_from_START_MEMO
RECURSIVE _transition_from_START_MEMO(_)
_transition_from_START_MEMO(tokenizer) ==
    Only({(
        IF AtEnd(T) THEN Raises(T, "InvalidWordNameError")
        ELSE IF _is_whitespace(CharAt(T, T.input_pos))
             THEN _transition_from_START_MEMO(_advance_position(T, 1))
        ELSE IF _is_quote(CharAt(T, T.input_pos))
             THEN Raises(_advance_position(T, 1), "InvalidWordNameError")
        ELSE _transition_from_GATHER_MEMO_NAME(
                 _advance_position(_advance_position(T, 1), -1))
        ) : T \in {tokenizer}})

\* Tokenizer._transition_from_GATHER_MODULE: up to whitespace or `}`.
RECURSIVE gather_module(_)
gather_module(tokenizer) ==
    Only({(
        IF AtEnd(T) THEN T
        ELSE IF _is_whitespace(CharAt(T, T.input_pos)) THEN _advance_position(T, 1)
        ELSE IF CharAt(T, T.input_pos) = "}"
             THEN _advance_position(_advance_position(T, 1), -1)
        ELSE gather_module(_advance_position(add_char(T, CharAt(T, T.input_pos)), 1))
        ) : T \in {tokenizer}})

module_token(T) == Returns(T, "START_MODULE", T.token_string)

_transition_from_GATHER_MODULE(T) == module_token(gather_module(_note_start_token(T)))

\* A triple-quoted string that closes at the first three delimiters,
\* whatever follows them.
RECURSIVE gather_triple_quote_first(_, _)
gather_triple_quote_first(T, delim) ==
    IF AtEnd(T) THEN Raises(T, "UnterminatedStringError")
    ELSE IF CharAt(T, T.input_pos) = delim /\ _is_triple_quote(T, T.input_pos, delim)
         THEN Returns(_advance_position(T, 3), "STRING", T.token_string)
         ELSE gather_triple_quote_first(
                  add_char(_advance_position(T, 1), CharAt(T, T.input_pos)), delim)

\* The loop of _transition_from_GATHER_TRIPLE_QUOTE_STRING: three
\* delimiters close the string unless a fourth follows, in which case one
\* delimiter joins the content.
RECURSIVE gather_triple_quote(_, _)
gather_triple_quote(tokenizer, delim) ==
    Only({(
        IF AtEnd(T) THEN Raises(T, "UnterminatedStringError")
        ELSE IF CharAt(T, T.input_pos) = delim /\ _is_triple_quote(T, T.input_pos, delim)
             THEN IF /\ T.input_pos + 3 < Len(T.input_string)
                     /\ CharAt(T, T.input_pos + 3) = delim
                  THEN gather_triple_quote(add_char(_advance_position(T, 1), delim), delim)
                  ELSE Returns(_advance_position(T, 3), "STRING", T.token_string)
             ELSE gather_triple_quote(
                      add_char(_advance_position(T, 1), CharAt(T, T.input_pos)), delim)
        ) : T \in {tokenizer}})

\* Tokenizer._transition_from_GATHER_TRIPLE_QUOTE_STRING
_transition_from_GATHER_TRIPLE_QUOTE_STRING(T, delim) ==
    gather_triple_quote(_note_start_token(T), delim)

\* Tokenizer._transition_from_GATHER_STRING
RECURSIVE gather_string(_, _)
gather_string(tokenizer, delim) ==
    Only({(
        IF AtEnd(T) THEN Raises(T, "UnterminatedStringError")
        ELSE IF CharAt(T, T.input_pos) = delim
             THEN Returns(_advance_position(T, 1), "STRING", T.token_string)
             ELSE gather_string(add_char(_advance_position(T, 1), CharAt(T, T.input_pos)), delim)
        ) : T \in {tokenizer}})

_transition_from_GATHER_STRING(T, delim) == gather_string(_note_start_token(T), delim)

\* The loop of _transition_from_GATHER_WORD and _GATHER_DOT_SYMBOL: up to
\* whitespace, or to one of ; [ ] { } #, which is handed back.
RECURSIVE gather_word(_)
gather_word(tokenizer) ==
    Only({(
        IF AtEnd(T) THEN T
        ELSE IF _is_whitespace(CharAt(T, T.input_pos)) THEN _advance_position(T, 1)
        ELSE IF CharAt(T, T.input_pos) \in {";", "[", "]", "{", "}", "#"}
             THEN _advance_position(_advance_position(T, 1), -1)
        ELSE gather_word(_advance_position(add_char(T, CharAt(T, T.input_pos)), 1))
        ) : T \in {tokenizer}})

word_token(T) == Returns(T, "WORD", T.token_string)

\* Tokenizer._transition_from_GATHER_WORD
_transition_from_GATHER_WORD(T) == word_token(gather_word(_note_start_token(T)))

\* Tokenizer._transition_from_GATHER_DOT_SYMBOL: a lone dot is a WORD;
\* otherwise the token's string is the symbol without its dot.
dot_symbol_token(T) ==
    IF Len(T.token_string) < 2 THEN Returns(T, "WORD", T.token_string)
    ELSE Returns(T, "DOT_SYMBOL", Tail(T.token_string))

_transition_from_GATHER_DOT_SYMBOL(T) == dot_symbol_token(gather_word(_note_start_token(T)))

\* Tokenizer._transition_from_START: T1 is the tokenizer after the start
\* of the token was noted and `char` consumed.
RECURSIVE _transition_from_START(_)
start_char(T1, char) ==
    IF _is_whitespace(char) THEN _transition_from_START(T1)
    ELSE IF char = "#" THEN _transition_from_COMMENT(T1)
    ELSE IF char = ":" THEN _transition_from_START_DEFINITION(T1)
    ELSE IF _is_start_memo(T1, T1.input_pos - 1)
         THEN _transition_from_START_MEMO(_advance_position(T1, 1))
    ELSE IF char = ";" THEN Returns(add_char(T1, char), "END_DEF", <<char>>)
    ELSE IF char = "[" THEN Returns(add_char(T1, char), "START_ARRAY", <<char>>)
    ELSE IF char = "]" THEN Returns(add_char(T1, char), "END_ARRAY", <<char>>)
    ELSE IF char = "{" THEN _transition_from_GATHER_MODULE(T1)
    ELSE IF char = "}" THEN Returns(add_char(T1, char), "END_MODULE", <<char>>)
    ELSE IF _is_triple_quote(T1, T1.input_pos - 1, char)
         THEN _transition_from_GATHER_TRIPLE_QUOTE_STRING(_advance_position(T1, 2), char)
    ELSE IF _is_quote(char) THEN _transition_from_GATHER_STRING(T1, char)
    ELSE IF char = "." THEN _transition_from_GATHER_DOT_SYMBOL(_advance_position(T1, -1))
    ELSE _transition_from_GATHER_WORD(_advance_position(T1, -1))

_transition_from_START(tokenizer) ==
    Only({(
        IF AtEnd(T) THEN Returns(T, "EOS", <<>>)
        ELSE start_char(_advance_position(_note_start_token(T), 1), CharAt(T, T.input_pos))
        ) : T \in {tokenizer}})

\* Tokenizer.next_token
Tokenizer_next_token(T) == _transition_from_START([T EXCEPT !.token_string = <<>>])

\* Before the first call of next_token.
NotLexed == [token |-> Token("none", <<>>, _get_token_location(Tokenizer_init(<<>>))),
             exc |-> "none"]

\* ------------------------------------------------------ stack operations
Raise(W, e) == [W EXCEPT !.exc = e]
Raised(W) == W.exc.kind # "none"

\* Interpreter.stack_push
stack_push(W, i, val) == [W EXCEPT !.stack[i] = Append(@, val)]

\* A stack_pop whose StackUnderflowError carries the location of the
\* tokenizer at the bottom of the tokenizer stack.
stack_pop_bottom(W, i) ==
    IF Len(W.stack[i]) = 0
    THEN [W |-> Raise(W, Err("StackUnderflowError",
                             IF Len(W.tokenizer_stack[i]) > 0
                             THEN W.tokenizer_stack[i][1].token_location ELSE NoLoc,
                             NoLoc, "none", "")),
          result |-> None]
    ELSE IF W.stack[i][Len(W.stack[i])].t = "pstr"
         THEN [W |-> [W EXCEPT !.stack[i] = SubSeq(@, 1, Len(@) - 1),
                               !.string_location[i] = W.stack[i][Len(W.stack[i])].loc],
               result |-> StrVal(W.stack[i][Len(W.stack[i])].s)]
         ELSE [W |-> [W EXCEPT !.stack[i] = SubSeq(@, 1, Len(@) - 1),
                               !.string_location[i] = NoLoc],
               result |-> W.stack[i][Len(W.stack[i])]]

\* Interpreter.stack_pop: the world after the pop and the popped value; a
\* positioned string decays to a plain string and leaves its location in
\* _string_location.
stack_pop(W, i) ==
    LET st == W.stack[i] IN
    IF Len(st) = 0
    THEN LET location == IF Len(W.tokenizer_stack[i]) > 0
                         THEN get_token_location(W, i) ELSE NoLoc
         IN [W |-> Raise(W, Err("StackUnderflowError", location, NoLoc, "none", "")),
             result |-> None]
    ELSE LET top == st[Len(st)]
             W1 == [W EXCEPT !.stack[i] = SubSeq(st, 1, Len(st) - 1)]
         IN IF top.t = "pstr"
            THEN [W |-> [W1 EXCEPT !.string_location[i] = top.loc],
                  result |-> StrVal(top.s)]
            ELSE [W |-> [W1 EXCEPT !.string_location[i] = NoLoc], result |-> top]

\* A peek that records the location of a positioned string as a pop does.
stack_peek_recording(W, i) ==
    IF Len(W.stack[i]) = 0
    THEN [W |-> Raise(W, SimpleError("IndexError")), result |-> None]
    ELSE IF W.stack[i][Len(W.stack[i])].t = "pstr"
         THEN [W |-> [W EXCEPT !.string_location[i] = W.stack[i][Len(W.stack[i])].loc],
               result |-> StrVal(W.stack[i][Len(W.stack[i])].s)]
         ELSE [W |-> [W EXCEPT !.string_location[i] = NoLoc],
               result |-> W.stack[i][Len(W.stack[i])]]

\* Interpreter.stack_peek: the top value, a positioned string as a plain
\* string; indexing an empty stack raises IndexError.
stack_peek(W, i) ==
    IF Len(W.stack[i]) = 0
    THEN [W |-> Raise(W, SimpleError("IndexError")), result |-> None]
    ELSE IF W.stack[i][Len(W.stack[i])].t = "pstr"
         THEN [W |-> W, result |-> StrVal(W.stack[i][Len(W.stack[i])].s)]
         ELSE [W |-> W, result |-> W.stack[i][Len(W.stack[i])]]

\* ----------------------------------------------------- module management
\* Interpreter.module_stack_push
module_stack_push(W, i, module) == [W EXCEPT !.module_stack[i] = Append(@, module)]

\* Interpreter.module_stack_pop: list.pop() raises IndexError on an empty list.
module_stack_pop(W, i) ==
    IF Len(W.module_stack[i]) = 0
    THEN Raise(W, SimpleError("IndexError"))
    ELSE [W EXCEPT !.module_stack[i] = SubSeq(@, 1, Len(@) - 1)]

\* Interpreter.register_module: the dict is shared by reference between an
\* interpreter and its duplicates.
register_module(W, i, module) ==
    [W EXCEPT !.registries[W.registered_modules[i]] = Put(@, W.modules[module].name, module)]

\* A StartModuleWord that makes a new module whenever the name is not empty.
StartModuleWord_execute_fresh(W, i, name) ==
    IF name = "" THEN module_stack_push(W, i, W.app_module[i])
    ELSE IF Len(W.module_stack[i]) = 0 THEN Raise(W, SimpleError("IndexError"))
    ELSE LET cur == W.module_stack[i][Len(W.module_stack[i])]
             W1 == AllocModule(W, NewModule(name))
             module == Len(W1.modules)
             W2 == Module_register_module(W1, cur, name, name, module)
             W3 == IF W.modules[cur].name = "" THEN register_module(W2, i, module) ELSE W2
         IN module_stack_push(W3, i, module)

\* StartModuleWord.execute
StartModuleWord_execute(W, i, name) ==
    IF name = "" THEN module_stack_push(W, i, W.app_module[i])
    ELSE IF Len(W.module_stack[i]) = 0 THEN Raise(W, SimpleError("IndexError"))
    ELSE LET cur == W.module_stack[i][Len(W.module_stack[i])] IN
         IF Has(W.modules[cur].modules, name)
         THEN module_stack_push(W, i, W.modules[cur].modules[name])
         ELSE LET W1 == AllocModule(W, NewModule(name))
                  module == Len(W1.modules)
                  W2 == Module_register_module(W1, cur, name, name, module)
                  W3 == IF W.modules[cur].name = "" THEN register_module(W2, i, module) ELSE W2
              IN module_stack_push(W3, i, module)

\* An array built in the order in which the items were popped.
RECURSIVE PoppedOrderLoop(_, _, _)
PoppedOrderLoop(W, i, items) ==
    IF Raised(stack_pop(W, i).W) THEN stack_pop(W, i).W
    ELSE IF stack_pop(W, i).result.t = "token"
         THEN stack_push(stack_pop(W, i).W, i, ArrayVal(items))
    ELSE PoppedOrderLoop(stack_pop(W, i).W, i, Append(items, stack_pop(W, i).result))

EndArrayWord_execute_popped_order(W, i) == PoppedOrderLoop(W, i, <<>>)

\* EndArrayWord.execute: pop down to the START_ARRAY token, push the items
\* in the order they were pushed.
RECURSIVE EndArrayLoop(_, _, _)
EndArrayLoop(W, i, items) ==
    LET p == stack_pop(W, i) IN
    IF Raised(p.W) THEN p.W
    ELSE IF p.result.t = "token" THEN stack_push(p.W, i, ArrayVal(items))
    ELSE EndArrayLoop(p.W, i, <<p.result>> \o items)

EndArrayWord_execute(W, i) == EndArrayLoop(W, i, <<>>)

\* The characters of each lexeme the model's sources use (a Python str is
\* atomic to TLC; the handlers below parse the characters).
Chars(s) ==
    CASE s = "42" -> <<"4", "2">>
      [] s = "007" -> <<"0", "0", "7">>
      [] s = "-5" -> <<"-", "5">>
      [] s = "3.5" -> <<"3", ".", "5">>
      [] s = "TRUE" -> <<"T", "R", "U", "E">>
      [] s = "FALSE" -> <<"F", "A", "L", "S", "E">>
      [] s = "9:30" -> <<"9", ":", "3", "0">>
      [] s = "2020-06-05" -> <<"2", "0", "2", "0", "-", "0", "6", "-", "0", "5">>
      [] s = "TICK" -> <<"T", "I", "C", "K">>
      [] s = "FAIL" -> <<"F", "A", "I", "L">>
      [] s = "STOP" -> <<"S", "T", "O", "P">>
      [] s = "POP" -> <<"P", "O", "P">>
      [] s = "p.TICK" -> <<"p", ".", "T", "I", "C", "K">>
      [] s = "HID" -> <<"H", "I", "D">>
      [] s = "p.HID" -> <<"p", ".", "H", "I", "D">>
      [] s = "D" -> <<"D">>
      [] s = "E" -> <<"E">>
      [] s = "K" -> <<"K">>
      [] s = "K!" -> <<"K", "!">>
      [] s = "K!@" -> <<"K", "!", "@">>
      [] s = "x" -> <<"x">>
      [] s = "ZZ" -> <<"Z", "Z">>
      [] s = "" -> <<>>
      [] s = "__x" -> <<"_", "_", "x">>
      [] s = "!" -> <<"!">>
      [] s = "@" -> <<"@">>
      [] s = "VARIABLES" -> <<"V", "A", "R", "I", "A", "B", "L", "E", "S">>
      [] s = "INTERPRET" -> <<"I", "N", "T", "E", "R", "P", "R", "E", "T">>
      [] s = "[" -> <<"[">>
      [] s = "]" -> <<"]">>
      [] s = "." -> <<".">>
      [] s = ";" -> <<";">>
      [] s = "}" -> <<"}">>
      [] s = "UTC" -> <<"U", "T", "C">>
      [] s = "Asia/Tokyo" -> <<"A", "s", "i", "a", "/", "T", "o", "k", "y", "o">>
      [] s = "America/New_York" ->
             <<"A", "m", "e", "r", "i", "c", "a", "/", "N", "e", "w", "_", "Y", "o", "r", "k">>
      [] s = "2020-06-05T10:15:00" ->
             <<"2", "0", "2", "0", "-", "0", "6", "-", "0", "5", "T",
               "1", "0", ":", "1", "5", ":", "0", "0">>
      [] s = "2021-12-31T23:59:59" ->
             <<"2", "0", "2", "1", "-", "1", "2", "-", "3", "1", "T",
               "2", "3", ":", "5", "9", ":", "5", "9">>
      [] s = "2020-02-29T00:00:00" ->
             <<"2", "0", "2", "0", "-", "0", "2", "-", "2", "9", "T",
               "0", "0", ":", "0", "0", ":", "0", "0">>

\* The lexemes of the table above, and the lexeme a sequence of characters
\* spells.
Lexemes ==
    {"42", "007", "-5", "3.5", "TRUE", "FALSE", "9:30", "2020-06-05", "TICK", "FAIL",
     "STOP", "POP", "p.TICK", "HID", "p.HID", "D", "E", "K", "K!", "K!@", "x", "ZZ",
     "", "__x", "!", "@", "VARIABLES", "INTERPRET", "[", "]", ".", ";", "}", "UTC", "Asia/Tokyo", "America/New_York", "2020-06-05T10:15:00",
     "2021-12-31T23:59:59", "2020-02-29T00:00:00"}

Lexeme(cs) == CHOOSE s \in Lexemes : Chars(s) = cs

\* ------------------------------------------------------- word execution
\* str.startswith over the characters of the model's names.
startswith(cs, prefix) == Len(cs) >= Len(prefix) /\ SubSeq(cs, 1, Len(prefix)) = prefix

\* Interpreter.cur_module: self._module_stack[-1]
cur_module(W, i) == W.module_stack[i][Len(W.module_stack[i])]

\* CoreModule._get_or_create_variable: the world and the Variable (0 when
\* the name is rejected).
_get_or_create_variable(W, i, name) ==
    IF startswith(Chars(name), <<"_", "_">>)
    THEN [W |-> Raise(W, Err("InvalidVariableNameError", W.string_location[i], NoLoc,
                             "none", name)),
          variable |-> 0]
    ELSE IF Len(W.module_stack[i]) = 0
         THEN [W |-> Raise(W, SimpleError("IndexError")), variable |-> 0]
         ELSE [W |-> add_variable(W, cur_module(W, i), name, None),
               variable |-> add_variable(W, cur_module(W, i), name, None)
                                .modules[cur_module(W, i)].variables[name]]

\* var_obj of the words !, @ and !@: the Variable a string names, or the
\* Variable popped.
var_obj(W, i, variable) ==
    IF variable.t = "str" THEN _get_or_create_variable(W, i, variable.s)
    ELSE IF variable.t = "var" THEN [W |-> W, variable |-> variable.n]
    ELSE [W |-> Raise(W, SimpleError("AttributeError")), variable |-> 0]

\* Variable.set_value
set_value(r, value) ==
    IF Raised(r.W) THEN r.W ELSE [r.W EXCEPT !.variables[r.variable].value = value]

\* CoreModule.bang (the word !): the decorator pops variable, then value.
bang_value(p2, i, variable) ==
    IF Raised(p2.W) THEN p2.W ELSE set_value(var_obj(p2.W, i, variable), p2.result)

bang_variable(p1, i) ==
    IF Raised(p1.W) THEN p1.W ELSE bang_value(stack_pop(p1.W, i), i, p1.result)

bang(W, i) == bang_variable(stack_pop(W, i), i)

\* CoreModule.at (the word @)
get_value(r, i) ==
    IF Raised(r.W) THEN r.W ELSE stack_push(r.W, i, r.W.variables[r.variable].value)

at_variable(p, i) == IF Raised(p.W) THEN p.W ELSE get_value(var_obj(p.W, i, p.result), i)

at(W, i) == at_variable(stack_pop(W, i), i)

\* CoreModule.VARIABLES: the names in order, up to the first rejected one.
RECURSIVE add_variables(_, _, _, _)
add_variables(W, i, varnames, k) ==
    IF k > Len(varnames) THEN W
    ELSE IF varnames[k].t # "str" THEN Raise(W, SimpleError("AttributeError"))
    ELSE IF startswith(Chars(varnames[k].s), <<"_", "_">>)
         THEN Raise(W, Err("InvalidVariableNameError", W.string_location[i], NoLoc,
                           "none", varnames[k].s))
         ELSE add_variables(add_variable(W, cur_module(W, i), varnames[k].s, None),
                            i, varnames, k + 1)

varnames_popped(p, i) ==
    IF Raised(p.W) THEN p.W
    ELSE IF p.result.t # "array" THEN Raise(p.W, SimpleError("TypeError"))
    ELSE IF Len(p.W.module_stack[i]) = 0 THEN Raise(p.W, SimpleError("IndexError"))
    ELSE add_variables(p.W, i, p.result.items, 1)

CoreModule_VARIABLES(W, i) == varnames_popped(stack_pop(W, i), i)

RECURSIVE run_entered(_, _)
\* A run that takes the place of the tokenizer on top of the stack.
nested_run_replacing(W, i) ==
    run_entered([W EXCEPT !.tokenizer_stack[i][Len(W.tokenizer_stack[i])] =
                              Tokenizer(W.sources + 1),
                          !.sources = @ + 1,
                          !.run_stack[i] = Append(@, [pc |-> W.pc[i],
                                                      num_attempts |-> W.num_attempts[i],
                                                      word |-> 0]),
                          !.num_attempts[i] = 0], i)

\* Interpreter.run called by a word while a run is in progress: the new
\* Tokenizer goes on top of the tokenizer stack, and the calling run waits.
nested_run(W, i) ==
    run_entered([W EXCEPT !.tokenizer_stack[i] = Append(@, Tokenizer(W.sources + 1)),
                          !.sources = @ + 1,
                          !.run_stack[i] = Append(@, [pc |-> W.pc[i],
                                                      num_attempts |-> W.num_attempts[i],
                                                      word |-> 0]),
                          !.num_attempts[i] = 0], i)

\* CoreModule.INTERPRET: run the popped string unless it is empty.
INTERPRET_string(p, i) ==
    IF Raised(p.W) THEN p.W
    ELSE IF p.result.t = "none" \/ (p.result.t = "str" /\ p.result.s = "") THEN p.W
    ELSE IF p.result.t # "str" THEN Raise(p.W, SimpleError("AttributeError"))
    ELSE nested_run(p.W, i)

INTERPRET(W, i) == INTERPRET_string(stack_pop(W, i), i)

\* Host coroutines wrapped by the ModuleWords of the model's host module:
\*   TICK pushes a value it has never pushed before (a clock, a counter);
\*   FAIL raises an ordinary exception; STOP raises IntentionalStopError
\*   (PEEK!, STACK!); POP pops the data stack; !, @ and VARIABLES are the
\*   variable words of CoreModule, INTERPRET its word that runs a string.
HostHandler(W, i, handler) ==
    CASE handler = "TICK" -> stack_push([W EXCEPT !.ticks = @ + 1], i, IntVal(W.ticks + 1))
      [] handler = "FAIL" -> Raise(W, SimpleError("ValueError"))
      [] handler = "STOP" -> Raise(W, SimpleError("IntentionalStopError"))
      [] handler = "POP" -> stack_pop(W, i).W
      [] handler = "!" -> bang(W, i)
      [] handler = "@" -> at(W, i)
      [] handler = "VARIABLES" -> CoreModule_VARIABLES(W, i)
      [] handler = "INTERPRET" -> INTERPRET(W, i)
      [] OTHER -> W

\* Word.try_error_handlers: the handlers in order until one returns; each
\* call is logged.  A handler is "ok" (returns) or "raise" (raises).
RECURSIVE try_error_handlers_from(_, _, _)
try_error_handlers_from(W, id, k) ==
    IF k > Len(W.words[id].error_handlers) THEN [W |-> W, handled |-> FALSE]
    ELSE LET W1 == [W EXCEPT !.eh_log = Append(@, [word |-> id, handler |-> k])]
         IN IF W.words[id].error_handlers[k] = "ok"
            THEN [W |-> W1, handled |-> TRUE]
            ELSE try_error_handlers_from(W1, id, k + 1)

try_error_handlers(W, id) == try_error_handlers_from(W, id, 1)

rethrow_unless_handled(r, e) == IF r.handled THEN r.W ELSE Raise(r.W, e)

\* An except clause that hands IntentionalStopError to the error handlers
\* like any other exception.
except_no_bypass(W1, id) ==
    IF ~Raised(W1) THEN W1
    ELSE rethrow_unless_handled(try_error_handlers(Raise(W1, NoError), id), W1.exc)

\* ModuleWord.execute: run the handler; IntentionalStopError is re-raised
\* at once; any other exception goes to the word's error handlers and is
\* re-raised unless one of them handled it.
ModuleWord_except(W1, id) ==
    IF ~Raised(W1) THEN W1
    ELSE IF W1.exc.kind = "IntentionalStopError" THEN W1
    ELSE rethrow_unless_handled(try_error_handlers(Raise(W1, NoError), id), W1.exc)

\* The handler is awaited inside the try block of the word: a run the
\* handler started is a frame of this word.
handler_awaited(W1, W, i, id) ==
    IF Len(W1.run_stack[i]) > Len(W.run_stack[i])
    THEN [W1 EXCEPT !.run_stack[i][Len(W1.run_stack[i])].word = id]
    ELSE W1

ModuleWord_execute(W, i, id) ==
    ModuleWord_except(handler_awaited(HostHandler(W, i, W.words[id].handler), W, i, id), id)

\* Word.get_location of a body entry: a shared word carries the location
\* last stored on the object, an inline word its own.
get_location(W, item) ==
    IF item.ref # 0 THEN W.words[item.ref].location ELSE item.location

Bump(map, k) == Put(map, k, IF Has(map, k) THEN map[k] + 1 ELSE 1)

RECURSIVE execute(_, _, _)
RECURSIVE DefinitionWord_execute(_, _, _, _, _)

\* DefinitionWord.execute, from the k-th word of the body on: an exception
\* of a body word is wrapped in a WordExecutionError.
DefinitionWord_except(W1, i, name, body, k) ==
    IF Raised(W1)
    THEN Raise(W1, [Err("WordExecutionError", get_token_location(W1, i),
                        get_location(W1, body[k]),
                        IF W1.exc.inner # "none" THEN W1.exc.inner ELSE W1.exc.kind,
                        name)
                    EXCEPT !.token = body[k].token])
    ELSE DefinitionWord_execute(W1, i, name, body, k + 1)

DefinitionWord_execute(W, i, name, body, k) ==
    IF k > Len(body) THEN W
    ELSE DefinitionWord_except(execute(W, i, body[k]), i, name, body, k)

\* ModuleMemoWord.refresh: run the wrapped word, cache the popped value.
\* body_stack records the stack the body left, for each refresh that
\* completes.
refresh_store(p, memo, left) ==
    IF Raised(p.W) THEN p.W
    ELSE [p.W EXCEPT !.words[memo].value = p.result,
                     !.words[memo].has_value = TRUE,
                     !.body_stack = Put(@, memo, left)]

refresh_pop(W1, i, memo) ==
    IF Raised(W1) THEN W1 ELSE refresh_store(stack_pop(W1, i), memo, W1.stack[i])

refresh(W, i, memo) ==
    refresh_pop(execute([W EXCEPT !.body_runs = Bump(@, memo)], i,
                        RefItem(W.words[memo].target)),
                i, memo)

\* interp.stack_push(self.value) of the memo words, unless refresh raised.
push_memo_value(W1, i, memo) ==
    IF Raised(W1) THEN W1 ELSE stack_push(W1, i, W1.words[memo].value)

\* A memo that refreshes on every execution.
ModuleMemoWord_execute_always(W, i, memo) ==
    push_memo_value(refresh(W, i, memo), i, memo)

\* ModuleMemoWord.execute
ModuleMemoWord_execute(W, i, memo) ==
    IF ~W.words[memo].has_value
    THEN push_memo_value(refresh(W, i, memo), i, memo)
    ELSE stack_push(W, i, W.words[memo].value)

\* ModuleMemoBangWord.execute
ModuleMemoBangWord_execute(W, i, id) == refresh(W, i, W.words[id].target)

\* ModuleMemoBangAtWord.execute
ModuleMemoBangAtWord_execute(W, i, id) ==
    push_memo_value(refresh(W, i, W.words[id].target), i, W.words[id].target)

\* Word.execute, dispatched on the class of the word.
execute_word(W, i, id, w) ==
    CASE w.kind = "PushValueWord" -> stack_push(W, i, w.value)
      [] w.kind = "DefinitionWord" -> DefinitionWord_execute(W, i, w.name, w.words, 1)
      [] w.kind = "ModuleMemoWord" -> ModuleMemoWord_execute(W, i, id)
      [] w.kind = "ModuleMemoBangWord" -> ModuleMemoBangWord_execute(W, i, id)
      [] w.kind = "ModuleMemoBangAtWord" -> ModuleMemoBangAtWord_execute(W, i, id)
      [] w.kind = "ExecuteWord" -> execute(W, i, RefItem(w.target))
      [] w.kind = "ModuleWord" -> ModuleWord_execute(W, i, id)

execute(W, i, item) ==
    IF item.ref = 0
    THEN CASE item.kind = "PushValueWord" -> stack_push(W, i, item.value)
           [] item.kind = "EndArrayWord" -> EndArrayWord_execute(W, i)
           [] item.kind = "StartModuleWord" -> StartModuleWord_execute(W, i, item.name)
           [] item.kind = "EndModuleWord" -> module_stack_pop(W, i)
    ELSE execute_word(W, i, item.ref, W.words[item.ref])

\* ------------------------------------------------------ literal handlers
Digits == <<"0", "1", "2", "3", "4", "5", "6", "7", "8", "9">>
IsDigit(c) == \E d \in 1..10 : Digits[d] = c
DigitValue(c) == (CHOOSE d \in 1..10 : Digits[d] = c) - 1
AllDigits(cs) == Len(cs) > 0 /\ \A k \in 1..Len(cs) : IsDigit(cs[k])
Contains(cs, c) == \E k \in 1..Len(cs) : cs[k] = c

RECURSIVE ParseNat(_)
ParseNat(cs) ==
    IF cs = <<>> THEN 0 ELSE 10 * ParseNat(SubSeq(cs, 1, Len(cs) - 1)) + DigitValue(cs[Len(cs)])

\* to_bool: exactly TRUE or FALSE.
to_bool(s) ==
    IF s = "TRUE" THEN BoolVal(TRUE) ELSE IF s = "FALSE" THEN BoolVal(FALSE) ELSE None

\* to_float: needs a decimal point and must parse as a float (a sign, then
\* digits around one point, at least one digit).
Unsigned(cs) == IF Len(cs) > 0 /\ cs[1] \in {"-", "+"} THEN Tail(cs) ELSE cs

IsFloatBody(body) ==
    /\ Cardinality({k \in 1..Len(body) : body[k] = "."}) = 1
    /\ Len(body) >= 2
    /\ \A k \in 1..Len(body) : body[k] = "." \/ IsDigit(body[k])

to_float_chars(s, cs) ==
    IF ~Contains(cs, ".") THEN None
    ELSE IF IsFloatBody(Unsigned(cs)) THEN FloatVal(s) ELSE None

to_float(s) == to_float_chars(s, Chars(s))

\* to_int: int(s, 10) must print back as s, so only the canonical decimal
\* spelling is accepted (no leading zeros, no "+", no "-0").
IntOf(neg, body) ==
    IF ~AllDigits(body) THEN None
    ELSE IF Len(body) > 1 /\ body[1] = "0" THEN None
    ELSE IF neg /\ body = <<"0">> THEN None
    ELSE IntVal(IF neg THEN 0 - ParseNat(body) ELSE ParseNat(body))

to_int_chars(cs) ==
    IF Contains(cs, ".") THEN None
    ELSE IF Len(cs) > 0 /\ cs[1] = "-" THEN IntOf(TRUE, Tail(cs))
    ELSE IntOf(FALSE, cs)

to_int(s) == to_int_chars(Chars(s))

\* to_time: H:MM or HH:MM with an optional AM/PM.
Meridiem(cs) ==
    IF Len(cs) >= 2 /\ cs[Len(cs)] = "M" /\ cs[Len(cs) - 1] \in {"A", "P"}
    THEN cs[Len(cs) - 1] ELSE ""

Hours24(mer, hours) ==
    IF mer = "P" /\ hours < 12 THEN hours + 12
    ELSE IF mer = "A" /\ hours = 12 THEN 0
    ELSE IF mer = "A" /\ hours > 12 THEN hours - 12
    ELSE hours

TimeOf(s, mer, hh, mm) ==
    IF ~(Len(hh) \in {1, 2} /\ AllDigits(hh) /\ Len(mm) = 2 /\ AllDigits(mm))
    THEN None
    ELSE IF Hours24(mer, ParseNat(hh)) > 23 \/ ParseNat(mm) >= 60 THEN None
    ELSE TimeVal(s)

TimeAtColon(s, mer, core, colons) ==
    IF colons = {} THEN None
    ELSE TimeOf(s, mer, SubSeq(core, 1, Min(colons) - 1),
                SubSeq(core, Min(colons) + 1, Len(core)))

TimeCore(s, mer, core) ==
    TimeAtColon(s, mer, core, {k \in 1..Len(core) : core[k] = ":"})

to_time_chars(s, cs, mer) ==
    TimeCore(s, mer, IF mer = "" THEN cs ELSE SubSeq(cs, 1, Len(cs) - 2))

to_time(s) == to_time_chars(s, Chars(s), Meridiem(Chars(s)))

\* The clock reading datetime.now(timezone) supplies to the date handler.
Today == [year |-> 2024, month |-> 2, day |-> 29]

DaysInMonth(y, m) ==
    IF m = 2 THEN (IF (y % 4 = 0 /\ y % 100 # 0) \/ y % 400 = 0 THEN 29 ELSE 28)
    ELSE IF m \in {4, 6, 9, 11} THEN 30 ELSE 31

IsDate(year, month, day) ==
    year >= 1 /\ month \in 1..12 /\ day >= 1 /\ day <= DaysInMonth(year, month)

DateVal(year, month, day) ==
    Val("date", (year * 100 + month) * 100 + day, "", NoLoc, NoItems)

\* to_literal_date(timezone): YYYY-MM-DD, each part digits or the wildcard,
\* and the three numbers must make a date.
DatePart(part, wildcard, today) ==
    IF AllDigits(part) THEN ParseNat(part) ELSE IF part = wildcard THEN today ELSE 0 - 1

DateOf(year, month, day) ==
    IF year < 0 \/ month < 0 \/ day < 0 THEN None
    ELSE IF IsDate(year, month, day) THEN DateVal(year, month, day) ELSE None

to_literal_date_chars(tz, cs) ==
    IF ~(Len(cs) = 10 /\ cs[5] = "-" /\ cs[8] = "-") THEN None
    ELSE DateOf(DatePart(SubSeq(cs, 1, 4), <<"Y", "Y", "Y", "Y">>, Today.year),
                DatePart(SubSeq(cs, 6, 7), <<"M", "M">>, Today.month),
                DatePart(SubSeq(cs, 9, 10), <<"D", "D">>, Today.day))

to_literal_date(tz, s) == to_literal_date_chars(tz, Chars(s))

\* to_zoned_datetime(timezone): needs a "T"; an ISO date, "T", HH:MM:SS and
\* an optional "Z".  Without a zone the timezone captured when the handler
\* was created is applied.
IsIsoDateTime(core) ==
    /\ Len(core) = 19
    /\ AllDigits(SubSeq(core, 1, 4)) /\ core[5] = "-"
    /\ AllDigits(SubSeq(core, 6, 7)) /\ core[8] = "-"
    /\ AllDigits(SubSeq(core, 9, 10)) /\ core[11] = "T"
    /\ AllDigits(SubSeq(core, 12, 13)) /\ core[14] = ":"
    /\ AllDigits(SubSeq(core, 15, 16)) /\ core[17] = ":"
    /\ AllDigits(SubSeq(core, 18, 19))
    /\ IsDate(ParseNat(SubSeq(core, 1, 4)), ParseNat(SubSeq(core, 6, 7)),
              ParseNat(SubSeq(core, 9, 10)))
    /\ ParseNat(SubSeq(core, 12, 13)) <= 23
    /\ ParseNat(SubSeq(core, 15, 16)) <= 59
    /\ ParseNat(SubSeq(core, 18, 19)) <= 59

to_zoned_datetime_chars(tz, s, cs) ==
    IF ~Contains(cs, "T") THEN None
    ELSE IF cs[Len(cs)] = "Z"
         THEN IF IsIsoDateTime(SubSeq(cs, 1, Len(cs) - 1))
              THEN Val("datetime", 0, s, NoLoc, <<StrVal("UTC")>>) ELSE None
         ELSE IF IsIsoDateTime(cs)
              THEN Val("datetime", 0, s, NoLoc, <<StrVal(tz)>>) ELSE None

to_zoned_datetime(tz, s) == to_zoned_datetime_chars(tz, s, Chars(s))

\* A registered literal handler: the function and, for the two closures,
\* the timezone captured at registration.  Besides the standard handlers
\* the host has two of its own: to_zz accepts only ZZ, to_answer only 42.
LiteralHandler(fn, tz) == [fn |-> fn, tz |-> tz]

ApplyLiteralHandler(h, s) ==
    CASE h.fn = "to_bool" -> to_bool(s)
      [] h.fn = "to_float" -> to_float(s)
      [] h.fn = "to_zoned_datetime" -> to_zoned_datetime(h.tz, s)
      [] h.fn = "to_literal_date" -> to_literal_date(h.tz, s)
      [] h.fn = "to_time" -> to_time(s)
      [] h.fn = "to_int" -> to_int(s)
      [] h.fn = "to_zz" -> IF s = "ZZ" THEN StrVal("user:ZZ") ELSE None
      [] h.fn = "to_answer" -> IF s = "42" THEN StrVal("answer") ELSE None
      [] OTHER -> None

\* Interpreter._register_standard_literals
StandardLiterals(tz) ==
    << LiteralHandler("to_bool", ""), LiteralHandler("to_float", ""),
       LiteralHandler("to_zoned_datetime", tz), LiteralHandler("to_literal_date", tz),
       LiteralHandler("to_time", ""), LiteralHandler("to_int", "") >>

\* Interpreter.find_literal_word: first handler that yields a value.
RECURSIVE find_literal_word_from(_, _, _)
literal_word_or_next(handlers, name, k, value) ==
    IF value # None THEN PushValueWord(name, value)
    ELSE find_literal_word_from(handlers, name, k + 1)

find_literal_word_from(handlers, name, k) ==
    IF k > Len(handlers) THEN NoItem
    ELSE literal_word_or_next(handlers, name, k, ApplyLiteralHandler(handlers[k], name))

find_literal_word(W, i, name) == find_literal_word_from(W.literal_handlers[i], name, 1)

\* Interpreter.register_literal_handler: list.append
register_literal_handler(W, i, handler) ==
    [W EXCEPT !.literal_handlers[i] = Append(@, handler)]

\* list.remove: the first occurrence only
list_remove(list, x) ==
    SubSeq(list, 1, Min({k \in 1..Len(list) : list[k] = x}) - 1)
        \o SubSeq(list, Min({k \in 1..Len(list) : list[k] = x}) + 1, Len(list))

\* Interpreter.unregister_literal_handler
unregister_literal_handler(W, i, handler) ==
    IF \E k \in 1..Len(W.literal_handlers[i]) : W.literal_handlers[i][k] = handler
    THEN [W EXCEPT !.literal_handlers[i] = list_remove(@, handler)]
    ELSE W

\* ------------------------------------------------------------- find word
\* The loop of Interpreter.find_word over reversed(self._module_stack),
\* from the k-th module of the stack downwards.
RECURSIVE find_in_module_stack(_, _, _, _)
find_in_module_stack(W, i, name, k) ==
    IF k = 0 THEN NoItem
    ELSE LET result == Module_find_word(W, W.module_stack[i][k], name)
         IN IF result # NoItem THEN result
            ELSE find_in_module_stack(W, i, name, k - 1)

OrElse(result, otherwise) == IF result # NoItem THEN result ELSE otherwise

found_or_unknown(W, i, name, result) ==
    IF result = NoItem
    THEN [item |-> NoItem,
          exc |-> Err("UnknownWordError", W.string_location[i], NoLoc, "none", name)]
    ELSE [item |-> result, exc |-> NoError]

\* A lookup that consults the literal handlers before the module stack.
find_word_literals_first(W, i, name) ==
    found_or_unknown(W, i, name,
        OrElse(find_literal_word(W, i, name),
               find_in_module_stack(W, i, name, Len(W.module_stack[i]))))

\* Interpreter.find_word: the module stack from the top down, then the
\* literal handlers, else UnknownWordError.
find_word(W, i, name) ==
    found_or_unknown(W, i, name,
        OrElse(find_in_module_stack(W, i, name, Len(W.module_stack[i])),
               find_literal_word(W, i, name)))

\* --------------------------------------------------------- token handling
NoDefinition == [isnone |-> TRUE, name |-> "", words |-> <<>>]
DefinitionWord(name) == [isnone |-> FALSE, name |-> name, words |-> <<>>]

Compiling(W, i) == W.is_compiling[i] /\ ~W.cur_definition[i].isnone

\* DefinitionWord.add_word on the definition being compiled.
cur_definition_add_word(W, i, item) ==
    [W EXCEPT !.cur_definition[i].words =
                  Append(@, [item EXCEPT !.token = W.previous_token[i].location])]

\* A _handle_word that executes the word also while compiling.
_handle_word_executed(W, i, item, location) ==
    IF Compiling(W, i)
    THEN execute(cur_definition_add_word(W, i, [item EXCEPT !.location = location]), i, item)
    ELSE execute(W, i, item)

\* Interpreter._handle_word: compile (store the location on the word, append
\* it) or execute.  The location of a shared dictionary word is stored on
\* the one object every definition refers to.
_handle_word(W, i, item, location) ==
    IF Compiling(W, i)
    THEN IF item.ref # 0
         THEN cur_definition_add_word(set_location(W, item.ref, location), i, item)
         ELSE cur_definition_add_word(W, i, [item EXCEPT !.location = location])
    ELSE execute(W, i, item)

\* Interpreter._handle_string_token
_handle_string_token(W, i, token) ==
    _handle_word(W, i, PushValueWord("<string>", PositionedString(token.string, token.location)), NoLoc)

\* A dot symbol that is read and not pushed.
_handle_dot_symbol_token_dropped(W, i, token) == W

\* Interpreter._handle_dot_symbol_token
_handle_dot_symbol_token(W, i, token) ==
    _handle_word(W, i, PushValueWord("<dot-symbol>", PositionedString(token.string, token.location)), NoLoc)

\* Interpreter._handle_start_array_token
_handle_start_array_token(W, i, token) ==
    _handle_word(W, i, PushValueWord("<start_array_token>", StartArrayToken(token.location)), NoLoc)

\* Interpreter._handle_end_array_token
_handle_end_array_token(W, i, token) == _handle_word(W, i, EndArrayWord, NoLoc)

\* A START_MODULE token that is executed and never compiled.
_handle_start_module_token_not_compiled(W, i, token) ==
    execute(W, i, StartModuleWord(token.string))

\* Interpreter._handle_start_module_token: compiled and executed at once.
_handle_start_module_token(W, i, token) ==
    LET word == StartModuleWord(token.string)
        W1 == IF Compiling(W, i) THEN cur_definition_add_word(W, i, word) ELSE W
    IN execute(W1, i, word)

\* Interpreter._handle_end_module_token
_handle_end_module_token(W, i, token) ==
    LET W1 == IF Compiling(W, i) THEN cur_definition_add_word(W, i, EndModuleWord) ELSE W
    IN execute(W1, i, EndModuleWord)

MissingSemicolonError(W, i) ==
    Err("MissingSemicolonError", W.previous_token[i].location, NoLoc, "none", "")

\* Interpreter._handle_start_definition_token
_handle_start_definition_token(W, i, token) ==
    IF W.is_compiling[i] THEN Raise(W, MissingSemicolonError(W, i))
    ELSE [W EXCEPT !.cur_definition[i] = DefinitionWord(token.string),
                   !.is_compiling[i] = TRUE,
                   !.is_memo_definition[i] = FALSE]

\* A START_MEMO handler that starts a definition whatever is being compiled.
start_memo_unchecked(W, i, token) ==
    [W EXCEPT !.cur_definition[i] = DefinitionWord(token.string),
              !.is_compiling[i] = TRUE,
              !.is_memo_definition[i] = TRUE]

\* Interpreter._handle_start_memo_token
_handle_start_memo_token(W, i, token) ==
    IF W.is_compiling[i] THEN Raise(W, MissingSemicolonError(W, i))
    ELSE [W EXCEPT !.cur_definition[i] = DefinitionWord(token.string),
                   !.is_compiling[i] = TRUE,
                   !.is_memo_definition[i] = TRUE]

\* An END_DEF that binds the name in the body of the new definition to the
\* new definition itself, where it was bound to an older word of that name.
_handle_end_definition_token_recursive(W, i, token) ==
    IF ~W.is_compiling[i] \/ W.cur_definition[i].isnone
    THEN Raise(W, Err("ExtraSemicolonError", token.location, NoLoc, "none", ""))
    ELSE IF Len(W.module_stack[i]) = 0 THEN Raise(W, SimpleError("IndexError"))
    ELSE LET cur == W.module_stack[i][Len(W.module_stack[i])]
             body == W.cur_definition[i].words
             new == Len(W.words) + 1
             definition == [WordObj("DefinitionWord", W.cur_definition[i].name)
                                EXCEPT !.words =
                                    [k \in 1..Len(body) |->
                                        IF body[k].ref # 0
                                           /\ W.words[body[k].ref].name = W.cur_definition[i].name
                                        THEN [body[k] EXCEPT !.ref = new]
                                        ELSE body[k]]]
             W1 == IF W.is_memo_definition[i]
                   THEN add_memo_words(W, cur, definition)
                   ELSE LET Wa == AllocWord(W, definition)
                        IN add_word(Wa, cur, Len(Wa.words))
         IN [W1 EXCEPT !.is_compiling[i] = FALSE]

\* An END_DEF that, when the current module already finds a word of this
\* name, puts the new definition in the place of that word.
_handle_end_definition_token_in_place(W, i, token) ==
    IF ~W.is_compiling[i] \/ W.cur_definition[i].isnone
    THEN Raise(W, Err("ExtraSemicolonError", token.location, NoLoc, "none", ""))
    ELSE IF Len(W.module_stack[i]) = 0 THEN Raise(W, SimpleError("IndexError"))
    ELSE LET cur == W.module_stack[i][Len(W.module_stack[i])]
             definition == [WordObj("DefinitionWord", W.cur_definition[i].name)
                                EXCEPT !.words = W.cur_definition[i].words]
             old == find_dictionary_word(W, cur, definition.name)
             W1 == IF old # 0 THEN [W EXCEPT !.words[old] = definition]
                   ELSE LET Wa == AllocWord(W, definition)
                        IN add_word(Wa, cur, Len(Wa.words))
         IN [W1 EXCEPT !.is_compiling[i] = FALSE]

\* Interpreter._handle_end_definition_token: the definition becomes a word
\* object of the current module.
_handle_end_definition_token(W, i, token) ==
    IF ~W.is_compiling[i] \/ W.cur_definition[i].isnone
    THEN Raise(W, Err("ExtraSemicolonError", token.location, NoLoc, "none", ""))
    ELSE IF Len(W.module_stack[i]) = 0 THEN Raise(W, SimpleError("IndexError"))
    ELSE LET cur == W.module_stack[i][Len(W.module_stack[i])]
             definition == [WordObj("DefinitionWord", W.cur_definition[i].name)
                                EXCEPT !.words = W.cur_definition[i].words]
             W1 == IF W.is_memo_definition[i]
                   THEN add_memo_words(W, cur, definition)
                   ELSE LET Wa == AllocWord(W, definition)
                        IN add_word(Wa, cur, Len(Wa.words))
         IN [W1 EXCEPT !.is_compiling[i] = FALSE]

\* Interpreter._handle_word_token
handle_found_word(W, i, found, location) ==
    IF found.exc.kind # "none" THEN Raise(W, found.exc)
    ELSE _handle_word(W, i, found.item, location)

_handle_word_token(W, i, token) ==
    handle_found_word(W, i, find_word(W, i, token.string), token.location)

\* Interpreter._handle_token
_handle_token(W, i, token) ==
    CASE token.type = "STRING" -> _handle_string_token(W, i, token)
      [] token.type = "COMMENT" -> W
      [] token.type = "START_ARRAY" -> _handle_start_array_token(W, i, token)
      [] token.type = "END_ARRAY" -> _handle_end_array_token(W, i, token)
      [] token.type = "START_MODULE" -> _handle_start_module_token(W, i, token)
      [] token.type = "END_MODULE" -> _handle_end_module_token(W, i, token)
      [] token.type = "START_DEF" -> _handle_start_definition_token(W, i, token)
      [] token.type = "START_MEMO" -> _handle_start_memo_token(W, i, token)
      [] token.type = "END_DEF" -> _handle_end_definition_token(W, i, token)
      [] token.type = "DOT_SYMBOL" -> _handle_dot_symbol_token(W, i, token)
      [] token.type = "WORD" -> _handle_word_token(W, i, token)
      [] token.type = "EOS" ->
            IF W.is_compiling[i] THEN Raise(W, MissingSemicolonError(W, i)) ELSE W
      [] OTHER -> Raise(W, Err("UnknownTokenError", W.string_location[i], NoLoc, "none", token.string))
vars == << words, modules, variables, registries, exists, timezone, stack,
           app_module, module_stack, registered_modules, tokenizer_stack,
           run_stack, returned, previous_token, handle_error, max_attempts, is_compiling,
           is_memo_definition, cur_definition, string_location,
           literal_handlers, pc, num_attempts, error, outcome, sources,
           fetched, ticks, handler_calls, body_runs, body_stack,
           eh_log, source_text, lexer, lexed >>

\* The current state as a world record; exc is the exception propagating
\* out of the operation being evaluated.
World ==
    [words |-> words, modules |-> modules, variables |-> variables,
     registries |-> registries, exists |-> exists, timezone |-> timezone,
     stack |-> stack, app_module |-> app_module, module_stack |-> module_stack,
     registered_modules |-> registered_modules,
     tokenizer_stack |-> tokenizer_stack, run_stack |-> run_stack,
     returned |-> returned,
     previous_token |-> previous_token,
     handle_error |-> handle_error, max_attempts |-> max_attempts,
     is_compiling |-> is_compiling, is_memo_definition |-> is_memo_definition,
     cur_definition |-> cur_definition, string_location |-> string_location,
     literal_handlers |-> literal_handlers, pc |-> pc,
     num_attempts |-> num_attempts, error |-> error, outcome |-> outcome,
     sources |-> sources, fetched |-> fetched, ticks |-> ticks,
     handler_calls |-> handler_calls, body_runs |-> body_runs,
     body_stack |-> body_stack, eh_log |-> eh_log,
     source_text |-> source_text, lexer |-> lexer, lexed |-> lexed,
     exc |-> NoError]

IsWorld(W) ==
    /\ words = W.words /\ modules = W.modules /\ variables = W.variables
    /\ registries = W.registries /\ exists = W.exists /\ timezone = W.timezone
    /\ stack = W.stack /\ app_module = W.app_module
    /\ module_stack = W.module_stack
    /\ registered_modules = W.registered_modules
    /\ tokenizer_stack = W.tokenizer_stack /\ run_stack = W.run_stack
    /\ returned = W.returned
    /\ previous_token = W.previous_token
    /\ handle_error = W.handle_error /\ max_attempts = W.max_attempts
    /\ is_compiling = W.is_compiling
    /\ is_memo_definition = W.is_memo_definition
    /\ cur_definition = W.cur_definition
    /\ string_location = W.string_location
    /\ literal_handlers = W.literal_handlers /\ pc = W.pc
    /\ num_attempts = W.num_attempts /\ error = W.error /\ outcome = W.outcome
    /\ sources = W.sources /\ fetched = W.fetched /\ ticks = W.ticks
    /\ handler_calls = W.handler_calls /\ body_runs = W.body_runs
    /\ body_stack = W.body_stack /\ eh_log = W.eh_log
    /\ source_text = W.source_text /\ lexer = W.lexer /\ lexed = W.lexed

Commit(W) ==
    /\ words' = W.words /\ modules' = W.modules /\ variables' = W.variables
    /\ registries' = W.registries /\ exists' = W.exists /\ timezone' = W.timezone
    /\ stack' = W.stack /\ app_module' = W.app_module
    /\ module_stack' = W.module_stack
    /\ registered_modules' = W.registered_modules
    /\ tokenizer_stack' = W.tokenizer_stack /\ run_stack' = W.run_stack
    /\ returned' = W.returned
    /\ previous_token' = W.previous_token
    /\ handle_error' = W.handle_error /\ max_attempts' = W.max_attempts
    /\ is_compiling' = W.is_compiling
    /\ is_memo_definition' = W.is_memo_definition
    /\ cur_definition' = W.cur_definition
    /\ string_location' = W.string_location
    /\ literal_handlers' = W.literal_handlers /\ pc' = W.pc
    /\ num_attempts' = W.num_attempts /\ error' = W.error /\ outcome' = W.outcome
    /\ sources' = W.sources /\ fetched' = W.fetched /\ ticks' = W.ticks
    /\ handler_calls' = W.handler_calls /\ body_runs' = W.body_runs
    /\ body_stack' = W.body_stack /\ eh_log' = W.eh_log
    /\ source_text' = W.source_text /\ lexer' = W.lexer /\ lexed' = W.lexed

\* ----------------------------------------------------------- construction
DefaultMaxAttempts == 3

Absent == [x \in InterpIds |-> FALSE]

\* Before any interpreter is constructed.
EmptyWorld ==
    [words |-> <<>>, modules |-> <<>>, variables |-> <<>>, registries |-> <<>>,
     exists |-> Absent,
     timezone |-> [x \in InterpIds |-> ""],
     stack |-> [x \in InterpIds |-> <<>>],
     app_module |-> [x \in InterpIds |-> 0],
     module_stack |-> [x \in InterpIds |-> <<>>],
     registered_modules |-> [x \in InterpIds |-> 0],
     tokenizer_stack |-> [x \in InterpIds |-> <<>>],
     run_stack |-> [x \in InterpIds |-> <<>>],
     returned |-> [op |-> "none", result |-> None, exc |-> NoError],
     previous_token |-> [x \in InterpIds |-> NoToken],
     handle_error |-> [x \in InterpIds |-> FALSE],
     max_attempts |-> [x \in InterpIds |-> 0],
     is_compiling |-> [x \in InterpIds |-> FALSE],
     is_memo_definition |-> [x \in InterpIds |-> FALSE],
     cur_definition |-> [x \in InterpIds |-> NoDefinition],
     string_location |-> [x \in InterpIds |-> NoLoc],
     literal_handlers |-> [x \in InterpIds |-> <<>>],
     pc |-> [x \in InterpIds |-> "idle"],
     num_attempts |-> [x \in InterpIds |-> 0],
     error |-> [x \in InterpIds |-> NoError],
     outcome |-> [x \in InterpIds |-> "none"],
     sources |-> 0,
     source_text |-> <<>>, lexer |-> Tokenizer_init(<<>>), lexed |-> NotLexed,
     fetched |-> [x \in InterpIds |-> 0],
     ticks |-> 0,
     handler_calls |-> [x \in InterpIds |-> 0],
     body_runs |-> EmptyMap, body_stack |-> EmptyMap, eh_log |-> <<>>,
     exc |-> NoError]

\* Interpreter.__init__ with modules = None: a fresh app module (the module
\* named ""), a fresh dict of registered modules, the standard literals.
Interpreter_init(W, i, tz) ==
    LET W1 == AllocModule(W, NewModule(""))
        app == Len(W1.modules)
    IN [W1 EXCEPT !.registries = Append(@, EmptyMap),
                  !.exists[i] = TRUE,
                  !.timezone[i] = tz,
                  !.stack[i] = <<>>,
                  !.app_module[i] = app,
                  !.module_stack[i] = <<app>>,
                  !.registered_modules[i] = Len(W.registries) + 1,
                  !.tokenizer_stack[i] = <<>>,
                  !.previous_token[i] = NoToken,
                  !.handle_error[i] = FALSE,
                  !.max_attempts[i] = DefaultMaxAttempts,
                  !.is_compiling[i] = FALSE,
                  !.is_memo_definition[i] = FALSE,
                  !.cur_definition[i] = NoDefinition,
                  !.string_location[i] = NoLoc,
                  !.literal_handlers[i] = StandardLiterals(tz)]

\* A reset that also empties the word list of the app module.
reset_words(W, i) ==
    [W EXCEPT !.stack[i] = <<>>,
              !.modules[W.app_module[i]].variables = EmptyMap,
              !.modules[W.app_module[i]].words = <<>>,
              !.module_stack[i] = <<W.app_module[i]>>,
              !.is_compiling[i] = FALSE,
              !.is_memo_definition[i] = FALSE,
              !.cur_definition[i] = NoDefinition,
              !.string_location[i] = NoLoc]

\* Interpreter.reset
reset(W, i) ==
    [W EXCEPT !.stack[i] = <<>>,
              !.modules[W.app_module[i]].variables = EmptyMap,
              !.module_stack[i] = <<W.app_module[i]>>,
              !.is_compiling[i] = FALSE,
              !.is_memo_definition[i] = FALSE,
              !.cur_definition[i] = NoDefinition,
              !.string_location[i] = NoLoc]

\* Interpreter.find_module: 0 stands for the UnknownModuleError case.
find_module(W, i, name) ==
    LET reg == W.registries[W.registered_modules[i]]
    IN IF Has(reg, name) THEN reg[name] ELSE 0

\* Interpreter.use_modules for one [name, prefix] entry.
use_modules(W, i, module_name, prefix) ==
    LET module == find_module(W, i, module_name)
    IN IF module = 0
       THEN Raise(W, Err("UnknownModuleError", W.string_location[i], NoLoc, "none", module_name))
       ELSE Module_import_module(W, W.app_module[i], prefix, module)

\* Interpreter.import_module: register, then use under the prefix.
import_module(W, i, module, prefix) ==
    use_modules(register_module(W, i, module), i, W.modules[module].name, prefix)

\* The host's module "lib": four ModuleWords around host coroutines.
HostModule(W) ==
    LET W1 == AllocModule(W, NewModule("lib"))
        lib == Len(W1.modules)
    IN add_module_word(add_module_word(add_module_word(add_module_word(
           W1, lib, "TICK", "TICK"), lib, "FAIL", "FAIL"), lib, "STOP", "STOP"),
           lib, "POP", "POP")

\* The module object HostModule created (imports make copies of that name).
HostLib(W) == Min({m \in 1..Len(W.modules) : W.modules[m].name = "lib"})

\* Word.add_error_handler
add_error_handler(W, id, handler) ==
    [W EXCEPT !.words[id].error_handlers = Append(@, handler)]

\* ------------------------------------------------------------ duplication
\* The orders in which Module.copy can re-import: the module_prefixes dict
\* in insertion order, the set of prefixes of each entry in any order (the
\* iteration order of a Python set of strings changes from process to
\* process).
Perms(S) ==
    {f \in [1..Cardinality(S) -> S] : \A x \in S : \E k \in 1..Cardinality(S) : f[k] = x}

RECURSIVE ImportOrders(_)
ImportOrders(mp) ==
    IF mp = <<>> THEN {<<>>}
    ELSE {[k \in 1..Len(f) |-> [name |-> Head(mp).name, prefix |-> f[k]]] \o rest :
              f \in Perms(Head(mp).prefixes), rest \in ImportOrders(Tail(mp))}

\* The loop of Module.copy: result.import_module(prefix, self.modules[name]).
RECURSIVE CopyImports(_, _, _, _)
CopyImports(W, m, result, imports) ==
    IF imports = <<>> THEN W
    ELSE CopyImports(Module_import_module(W, result, Head(imports).prefix,
                                          W.modules[m].modules[Head(imports).name]),
                     m, result, Tail(imports))

\* Module.copy: the same fresh module Module.dup builds, then the imports.
Module_copy(W, m, imports) ==
    CopyImports(Module_dup(W, m), m, Len(W.modules) + 1, imports)

\* A duplication that shares the app module instead of copying it.
dup_fields_shared_module(W1, i, d, copy) ==
    [W1 EXCEPT !.app_module[d] = W1.app_module[i],
               !.module_stack[d] = <<W1.app_module[i]>>,
               !.stack[d] = W1.stack[i],
               !.registered_modules[d] = W1.registered_modules[i],
               !.handle_error[d] = W1.handle_error[i]]

\* A duplication that gives the duplicate a copy of the dict of registered
\* modules.
dup_fields_copied_registry(W1, i, d, copy) ==
    [W1 EXCEPT !.app_module[d] = copy,
               !.module_stack[d] = <<copy>>,
               !.stack[d] = W1.stack[i],
               !.registries[W1.registered_modules[d]] = W1.registries[W1.registered_modules[i]],
               !.handle_error[d] = W1.handle_error[i]]

\* dup_interpreter, after the constructor and the copy of the app module:
\* the duplicate gets the copy as app module and only module of its stack,
\* a copy of the list of stack items, the same dict of registered modules
\* and the same recovery callback.
dup_fields(W1, i, d, copy) ==
    [W1 EXCEPT !.app_module[d] = copy,
               !.module_stack[d] = <<copy>>,
               !.stack[d] = W1.stack[i],
               !.registered_modules[d] = W1.registered_modules[i],
               !.handle_error[d] = W1.handle_error[i]]

copy_app_module(W0, i, d, imports) ==
    dup_fields(Module_copy(W0, W0.app_module[i], imports), i, d, Len(W0.modules) + 1)

dup_interpreter(W, i, d, imports) ==
    copy_app_module(Interpreter_init(W, d, W.timezone[i]), i, d, imports)

\* ------------------------------------------------------------ run control
\* run_stack holds one frame for each run() suspended in the word INTERPRET
\* while the run it started is in progress: how the suspended run was
\* executing, its num_attempts, and the ModuleWord that called run().
\*
\* An exception leaves run(): the tokenizer pushed by run() stays where it
\* is.  Out of a nested run the exception goes on through ModuleWord.execute
\* of the calling word into the loop of the suspended run.  (An error
\* handler of the calling word that swallows the exception would leave the
\* suspended loop on a tokenizer that is no longer on top; the words that
\* call run() have no error handlers here.)
RECURSIVE RunRaises(_, _, _), except_Exception(_, _, _)
word_raised(W1, i, frame) ==
    IF ~Raised(W1) THEN [W1 EXCEPT !.pc[i] = frame.pc]
    ELSE IF frame.pc = "direct" THEN RunRaises(W1, i, W1.exc)
    ELSE except_Exception(W1, i, W1.exc)

RunRaises(W, i, e) ==
    IF W.run_stack[i] = <<>>
    THEN [W EXCEPT !.pc[i] = "idle", !.outcome[i] = "raised", !.error[i] = e,
                   !.exc = NoError]
    ELSE word_raised(
             ModuleWord_except(
                 Raise([W EXCEPT !.run_stack[i] = SubSeq(@, 1, Len(@) - 1),
                                 !.num_attempts[i] =
                                     W.run_stack[i][Len(W.run_stack[i])].num_attempts], e),
                 W.run_stack[i][Len(W.run_stack[i])].word),
             i, W.run_stack[i][Len(W.run_stack[i])])

\* run() returns: its tokenizer is popped; a nested run returns into the
\* word that called it, and the suspended run goes on.
RunReturns(W, i) ==
    IF W.run_stack[i] = <<>>
    THEN [W EXCEPT !.pc[i] = "idle", !.outcome[i] = "returned", !.error[i] = NoError,
                   !.tokenizer_stack[i] = SubSeq(@, 1, Len(@) - 1)]
    ELSE [W EXCEPT !.pc[i] = W.run_stack[i][Len(W.run_stack[i])].pc,
                   !.num_attempts[i] = W.run_stack[i][Len(W.run_stack[i])].num_attempts,
                   !.run_stack[i] = SubSeq(@, 1, Len(@) - 1),
                   !.tokenizer_stack[i] = SubSeq(@, 1, Len(@) - 1)]

\* The except clause of _execute_with_recovery: without a callback the
\* exception propagates (through every enclosing frame, each of which is
\* inside its own except clause); otherwise the callback is awaited.
except_Exception(W, i, e) ==
    IF ~W.handle_error[i] THEN RunRaises(W, i, e)
    ELSE [W EXCEPT !.pc[i] = "handler", !.error[i] = e,
                   !.handler_calls[i] = @ + 1, !.exc = NoError]

\* _execute_with_recovery(num_attempts) up to the call of _continue.  Each
\* retry is one more Python frame: past the interpreter's recursion limit
\* the call itself raises RecursionError, from inside the caller's except
\* clause.
RECURSIVE FrameDepth(_)
FrameDepth(frames) ==
    IF frames = <<>> THEN 0
    ELSE frames[1].num_attempts + FrameDepth(SubSeq(frames, 2, Len(frames)))

\* A retry that starts the tokenizer of the run over.
_execute_with_recovery_rewound(W, i) ==
    LET n == W.num_attempts[i] + 1
        W1 == [W EXCEPT !.num_attempts[i] = n,
                        !.tokenizer_stack[i][Len(W.tokenizer_stack[i])] = Tokenizer(@.source)]
    IN IF W.num_attempts[i] + FrameDepth(W.run_stack[i]) >= RecursionLimit
       THEN RunRaises(W, i, SimpleError("RecursionError"))
       ELSE IF n > W.max_attempts[i]
            THEN except_Exception(W1, i, SimpleError("TooManyAttemptsError"))
            ELSE [W1 EXCEPT !.pc[i] = "recovery"]

_execute_with_recovery(W, i) ==
    LET n == W.num_attempts[i] + 1
        W1 == [W EXCEPT !.num_attempts[i] = n]
    IN IF W.num_attempts[i] + FrameDepth(W.run_stack[i]) >= RecursionLimit
       THEN RunRaises(W, i, SimpleError("RecursionError"))
       ELSE IF n > W.max_attempts[i]
            THEN except_Exception(W1, i, SimpleError("TooManyAttemptsError"))
            ELSE [W1 EXCEPT !.pc[i] = "recovery"]

\* One iteration of the loop of _run_with_tokenizer: fetch the next token,
\* handle it, and follow the exception or the EOS out of the loop.
NextTokenLocation(tk) ==
    IF tk.at_eos THEN tk.token_location ELSE Loc(tk.source, tk.pos + 1)

\* tokenizer.next_token(), then self._previous_token = token
next_token(W, i, token) ==
    [W EXCEPT !.tokenizer_stack[i][Len(W.tokenizer_stack[i])].pos = token.location.pos,
              !.tokenizer_stack[i][Len(W.tokenizer_stack[i])].token_location = token.location,
              !.tokenizer_stack[i][Len(W.tokenizer_stack[i])].at_eos = (token.type = "EOS"),
              !.previous_token[i] = token,
              !.fetched[i] = @ + 1,
              !.eh_log = <<>>]

\* After _handle_token: an exception leaves the loop (to the caller of run,
\* or to the except clause of _execute_with_recovery), EOS ends it.
token_handled(W1, i, type, direct) ==
    IF Raised(W1)
    THEN IF direct THEN RunRaises(W1, i, W1.exc) ELSE except_Exception(W1, i, W1.exc)
    ELSE IF type = "EOS" THEN RunReturns(W1, i)
    ELSE W1

handle_next_token(W, i, token) ==
    token_handled(_handle_token(next_token(W, i, token), i, token), i, token.type,
                  W.pc[i] = "direct")

_run_with_tokenizer(W, i, type, string) ==
    handle_next_token(W, i,
        Token(type, string,
              NextTokenLocation(W.tokenizer_stack[i][Len(W.tokenizer_stack[i])])))

RECURSIVE SumOver(_, _)
SumOver(f, S) ==
    IF S = {} THEN 0
    ELSE LET x == CHOOSE y \in S : TRUE IN f[x] + SumOver(f, S \ {x})

\* The environment supplies MaxTokens tokens in all.
TokensLeft == SumOver(fetched, InterpIds) < MaxTokens

Running(i) ==
    /\ exists[i]
    /\ pc[i] \in {"direct", "recovery"}
    /\ TokensLeft

\* A token other than EOS can come only while input is left.
MoreInput(i) == ~tokenizer_stack[i][Len(tokenizer_stack[i])].at_eos

\* ---------------------------------------------------------------- actions
\* run(string): push a Tokenizer, then either _execute_with_recovery or
\* _run_with_tokenizer.
\* The state of the Tokenizer over source_text after next_token, and what
\* next_token returned or raised.
lex_next(W, r) == [W EXCEPT !.lexer = r.T, !.lexed = [token |-> r.token, exc |-> r.exc]]

run_entered(W0, i) ==
    IF W0.handle_error[i] THEN _execute_with_recovery(W0, i)
    ELSE [W0 EXCEPT !.pc[i] = "direct"]

run(W, i) ==
    run_entered([W EXCEPT !.tokenizer_stack[i] = Append(@, Tokenizer(W.sources + 1)),
                          !.sources = @ + 1,
                          !.outcome[i] = "none", !.error[i] = NoError,
                          !.num_attempts[i] = 0, !.handler_calls[i] = 0], i)

Run(i) ==
    /\ exists[i] /\ pc[i] = "idle" /\ TokensLeft
    /\ Commit(run(World, i))

\* run(source_text): the tokens of this run are the ones the Tokenizer
\* makes of the characters of source_text.
RunSource(i) ==
    /\ exists[i] /\ pc[i] = "idle" /\ TokensLeft
    /\ lexed = NotLexed
    /\ Commit(run(World, i))

\* One iteration of the loop of _run_with_tokenizer over source_text: an
\* exception of next_token leaves the loop as one of _handle_token does.
source_token(W, i, r) ==
    IF r.exc # "none"
    THEN token_handled(Raise(lex_next(W, r), SimpleError(r.exc)), i, "none",
                       W.pc[i] = "direct")
    ELSE _run_with_tokenizer(lex_next(W, r), i, r.token.type, Lexeme(r.token.string))

HandleSourceToken(i) ==
    /\ Running(i)
    /\ lexed.exc = "none" /\ lexed.token.type # "EOS"
    /\ Commit(source_token(World, i, Tokenizer_next_token(lexer)))

HandleStringToken(i, string) ==
    Running(i) /\ MoreInput(i) /\ Commit(_run_with_tokenizer(World, i, "STRING", string))

HandleCommentToken(i) ==
    Running(i) /\ MoreInput(i) /\ Commit(_run_with_tokenizer(World, i, "COMMENT", "#"))

HandleStartArrayToken(i) ==
    Running(i) /\ MoreInput(i) /\ Commit(_run_with_tokenizer(World, i, "START_ARRAY", "["))

HandleEndArrayToken(i) ==
    Running(i) /\ MoreInput(i) /\ Commit(_run_with_tokenizer(World, i, "END_ARRAY", "]"))

HandleStartModuleToken(i, name) ==
    Running(i) /\ MoreInput(i) /\ Commit(_run_with_tokenizer(World, i, "START_MODULE", name))

HandleEndModuleToken(i) ==
    Running(i) /\ MoreInput(i) /\ Commit(_run_with_tokenizer(World, i, "END_MODULE", "}"))

HandleStartDefinitionToken(i, name) ==
    Running(i) /\ MoreInput(i) /\ Commit(_run_with_tokenizer(World, i, "START_DEF", name))

HandleStartMemoToken(i, name) ==
    Running(i) /\ MoreInput(i) /\ Commit(_run_with_tokenizer(World, i, "START_MEMO", name))

HandleEndDefinitionToken(i) ==
    Running(i) /\ MoreInput(i) /\ Commit(_run_with_tokenizer(World, i, "END_DEF", ";"))

HandleDotSymbolToken(i, string) ==
    Running(i) /\ MoreInput(i) /\ Commit(_run_with_tokenizer(World, i, "DOT_SYMBOL", string))

HandleWordToken(i, name) ==
    Running(i) /\ MoreInput(i) /\ Commit(_run_with_tokenizer(World, i, "WORD", name))

HandleEOS(i) ==
    Running(i) /\ Commit(_run_with_tokenizer(World, i, "EOS", ""))

\* The recovery callback returns: _execute_with_recovery calls itself.
HandleErrorReturns(i) ==
    /\ pc[i] = "handler"
    /\ Commit(_execute_with_recovery(World, i))

\* The recovery callback raises: its exception leaves run().
HandleErrorRaises(i) ==
    /\ pc[i] = "handler"
    /\ Commit(RunRaises(World, i, SimpleError("CallbackError")))

\* The recovery callback removes itself (set_error_handler(None)) and returns.
HandleErrorUninstalls(i) ==
    /\ pc[i] = "handler"
    /\ Commit(_execute_with_recovery([World EXCEPT !.handle_error[i] = FALSE], i))

\* reset(), between runs
Reset(i) ==
    /\ exists[i] /\ pc[i] = "idle"
    /\ Commit(reset(World, i))

\* tokenizer.next_token() on the Tokenizer over source_text, until it
\* returns EOS or raises
NextToken ==
    /\ lexed.exc = "none" /\ lexed.token.type # "EOS"
    /\ Commit(lex_next(World, Tokenizer_next_token(lexer)))

\* tokenizer.next_token(), also after it has returned EOS; an exception
\* ends the use of the tokenizer.
NextTokenAgain ==
    /\ lexed.exc = "none"
    /\ \E r \in {Tokenizer_next_token(lexer)} : Commit(lex_next(World, r))

\* The host calls interp.stack_pop() or interp.stack_peek() between runs.
host_call(p, op) ==
    [p.W EXCEPT !.returned = [op |-> op, result |-> p.result, exc |-> p.W.exc],
                !.exc = NoError]

StackPop(i) ==
    /\ exists[i] /\ pc[i] = "idle"
    /\ Commit(host_call(stack_pop(World, i), "stack_pop"))

StackPeek(i) ==
    /\ exists[i] /\ pc[i] = "idle"
    /\ Commit(host_call(stack_peek(World, i), "stack_peek"))

\* set_error_handler, between runs
SetErrorHandler(i) ==
    /\ exists[i] /\ pc[i] = "idle" /\ ~handle_error[i]
    /\ Commit([World EXCEPT !.handle_error[i] = TRUE])

\* set_timezone, between runs: the attribute is assigned, and the literal
\* handlers stay the ones made by __init__.
SetTimezone(i, tz) ==
    /\ exists[i] /\ pc[i] = "idle" /\ timezone[i] # tz
    /\ Commit([World EXCEPT !.timezone[i] = tz])

\* set_max_attempts, between runs
SetMaxAttempts(i, n) ==
    /\ exists[i] /\ pc[i] = "idle" /\ max_attempts[i] # n
    /\ Commit([World EXCEPT !.max_attempts[i] = n])

\* The host attaches an error handler to a word of its module "lib" (the
\* imports share the word object): one that returns, or one that raises.
AddErrorHandler(name, handler) ==
    /\ \A i \in InterpIds : pc[i] = "idle"
    /\ find_dictionary_word(World, HostLib(World), name) # 0
    /\ Len(words[find_dictionary_word(World, HostLib(World), name)].error_handlers)
           < MaxErrorHandlers
    /\ Commit(add_error_handler(World, find_dictionary_word(World, HostLib(World), name),
                                handler))

\* cur_module().add_variable(name), as the word VARIABLES does
AddVariable(i, name) ==
    /\ exists[i] /\ Len(module_stack[i]) > 0
    /\ ~Has(modules[module_stack[i][Len(module_stack[i])]].variables, name)
    /\ Commit(add_variable(World, module_stack[i][Len(module_stack[i])], name, None))

\* use_modules([[module_name, prefix]]), between runs, for a registered
\* module not yet imported under that prefix
UseModules(i, module_name, prefix) ==
    /\ exists[i] /\ pc[i] = "idle"
    /\ find_module(World, i, module_name) # 0
    /\ \A k \in 1..Len(modules[app_module[i]].module_prefixes) :
           modules[app_module[i]].module_prefixes[k].name = module_name
               => prefix \notin modules[app_module[i]].module_prefixes[k].prefixes
    /\ Commit(use_modules(World, i, module_name, prefix))

\* d = dup_interpreter(i), between runs
DupInterpreter(i, d) ==
    /\ exists[i] /\ ~exists[d] /\ pc[i] = "idle"
    /\ \E imports \in ImportOrders(modules[app_module[i]].module_prefixes) :
           Commit(dup_interpreter(World, i, d, imports))

\* A whole run(string) whose tokens are known: the state it returns in (or
\* raises in), the tokens counted from there on.
RECURSIVE handle_tokens(_, _, _)
handle_tokens(W, i, tokens) ==
    IF tokens = <<>> THEN W
    ELSE handle_tokens(_run_with_tokenizer(W, i, tokens[1][1], tokens[1][2]), i, Tail(tokens))

AfterRun(W, i, tokens) ==
    [handle_tokens(run(W, i), i, Append(tokens, <<"EOS", "">>))
         EXCEPT !.fetched = [x \in InterpIds |-> 0]]

\* ---------------------------------------------------------- specification
\* An interpreter and the host module "lib", registered.
RegisteredWorld ==
    LET W == HostModule(Interpreter_init(EmptyWorld, 1, "UTC"))
    IN register_module(W, 1, HostLib(W))

\* ... and imported without a prefix.
InitWorld == use_modules(RegisteredWorld, 1, "lib", "")

Init == IsWorld(InitWorld)

\* Modules and definitions, without a recovery callback.
CoreWords == {"TICK", "FAIL", "D", "ZZ"}

Next ==
    \/ Run(1)
    \/ HandleStartModuleToken(1, "m")
    \/ HandleStartModuleToken(1, "")
    \/ HandleEndModuleToken(1)
    \/ HandleStartDefinitionToken(1, "D")
    \/ HandleEndDefinitionToken(1)
    \/ \E n \in CoreWords : HandleWordToken(1, n)
    \/ HandleEOS(1)

Spec == Init /\ [][Next]_vars

\* Runs under a recovery callback that may return, raise or remove itself.
RecoveryWords == {"TICK", "FAIL", "STOP", "D"}

NextRecovery ==
    \/ Run(1)
    \/ SetErrorHandler(1)
    \/ \E n \in 1..2 : SetMaxAttempts(1, n)
    \/ HandleStartDefinitionToken(1, "D")
    \/ HandleEndDefinitionToken(1)
    \/ \E n \in RecoveryWords : HandleWordToken(1, n)
    \/ HandleEOS(1)
    \/ HandleErrorReturns(1)
    \/ HandleErrorRaises(1)
    \/ HandleErrorUninstalls(1)

SpecRecovery == Init /\ [][NextRecovery]_vars

\* Runs under a recovery callback whose calls always return.
ReturningWords == {"TICK", "FAIL"}

NextReturning ==
    \/ Run(1)
    \/ SetErrorHandler(1)
    \/ \E n \in 1..2 : SetMaxAttempts(1, n)
    \/ \E n \in ReturningWords : HandleWordToken(1, n)
    \/ HandleEOS(1)
    \/ HandleErrorReturns(1)

SpecReturning == Init /\ [][NextReturning]_vars

\* Memo definitions and their three words.
MemoWords == {"TICK", "K", "K!", "K!@"}

NextMemo ==
    \/ Run(1)
    \/ HandleStartMemoToken(1, "K")
    \/ HandleEndDefinitionToken(1)
    \/ \E n \in MemoWords : HandleWordToken(1, n)
    \/ HandleEOS(1)

SpecMemo == Init /\ [][NextMemo]_vars

\* Shadowing: user definitions named like a word of "lib", which is
\* imported at some time between runs.
LibWords == {"TICK", "FAIL", "STOP", "POP"}

InitRegistered == IsWorld(RegisteredWorld)

NextShadow ==
    \/ Run(1)
    \/ UseModules(1, "lib", "")
    \/ HandleStartDefinitionToken(1, "TICK")
    \/ HandleEndDefinitionToken(1)
    \/ HandleWordToken(1, "TICK")
    \/ HandleEOS(1)

SpecShadow == InitRegistered /\ [][NextShadow]_vars

\* Lookup: definitions and variables named 42 in the app module and in a
\* module m.
LookupNames == {"42", "TICK", "ZZ"}

NextLookup ==
    \/ Run(1)
    \/ AddVariable(1, "42")
    \/ HandleStartModuleToken(1, "m")
    \/ HandleEndModuleToken(1)
    \/ HandleStartDefinitionToken(1, "42")
    \/ HandleEndDefinitionToken(1)
    \/ HandleWordToken(1, "42")

SpecLookup == Init /\ [][NextLookup]_vars

\* An interpreter and its duplicate.
DupWords == {"42", "POP", "D"}

DupTokensLeft == SumOver(fetched, InterpIds) < MaxDupTokens

NextDup ==
    \/ DupInterpreter(1, 2)
    \/ \E i \in InterpIds :
           \/ Run(i)
           \/ DupTokensLeft /\ HandleStartDefinitionToken(i, "D")
           \/ DupTokensLeft /\ HandleEndDefinitionToken(i)
           \/ \E n \in DupWords : DupTokensLeft /\ HandleWordToken(i, n)

SpecDup == Init /\ [][NextDup]_vars

\* An interpreter that imports "lib", defines a TICK of its own and is
\* duplicated.
NextDupShadow ==
    \/ DupInterpreter(1, 2)
    \/ UseModules(1, "lib", "")
    \/ \E i \in InterpIds :
           \/ Run(i)
           \/ DupTokensLeft /\ HandleStartDefinitionToken(i, "TICK")
           \/ DupTokensLeft /\ HandleEndDefinitionToken(i)
           \/ DupTokensLeft /\ HandleWordToken(i, "TICK")
           \/ HandleEOS(i)

SpecDupShadow == InitRegistered /\ [][NextDupShadow]_vars

\* Host words with error handlers.
HandledWords == {"FAIL", "STOP"}

NextWordHandlers ==
    \/ Run(1)
    \/ \E n \in HandledWords, h \in {"ok", "raise"} : AddErrorHandler(n, h)
    \/ \E n \in HandledWords : HandleWordToken(1, n)

SpecWordHandlers == Init /\ [][NextWordHandlers]_vars

\* Definitions and memos begun and ended in any order, with and without a
\* recovery callback.
NextCompile ==
    \/ Run(1)
    \/ SetErrorHandler(1)
    \/ HandleStartDefinitionToken(1, "D")
    \/ HandleStartMemoToken(1, "K")
    \/ HandleEndDefinitionToken(1)
    \/ HandleWordToken(1, "TICK")
    \/ HandleEOS(1)
    \/ HandleErrorReturns(1)

SpecCompile == Init /\ [][NextCompile]_vars

\* Definitions and memos whose bodies hold strings, dot symbols, arrays and
\* words, compiled in the app module or in a module opened by the body.
BodyWords == {"TICK", "D"}

NextBody ==
    \/ Run(1)
    \/ HandleStartDefinitionToken(1, "D")
    \/ HandleStartMemoToken(1, "K")
    \/ HandleEndDefinitionToken(1)
    \/ HandleStringToken(1, "s")
    \/ HandleDotSymbolToken(1, "x")
    \/ HandleStartArrayToken(1)
    \/ HandleEndArrayToken(1)
    \/ HandleStartModuleToken(1, "m")
    \/ \E n \in BodyWords : HandleWordToken(1, n)

SpecBody == Init /\ [][NextBody]_vars

\* Imports of "lib", which also has a word HID it does not export, with and
\* without a prefix.
HelperWorld ==
    LET W == AllocWord(RegisteredWorld, [WordObj("ModuleWord", "HID") EXCEPT !.handler = "TICK"])
    IN add_word(W, HostLib(W), Len(W.words))

InitHelper == IsWorld(HelperWorld)

PrefixedNames == {"TICK", "p.TICK", "HID", "p.HID"}

NextPrefix ==
    \/ Run(1)
    \/ \E prefix \in {"", "p"} : UseModules(1, "lib", prefix)
    \/ \E n \in PrefixedNames : HandleWordToken(1, n)
    \/ HandleEOS(1)

SpecPrefix == InitHelper /\ [][NextPrefix]_vars

\* Runs that leave a stack, variables, open modules, a definition being
\* compiled and a last string location behind, and resets between them.
NextReset ==
    \/ Run(1)
    \/ Reset(1)
    \/ Len(variables) < MaxVariables /\ AddVariable(1, "x")
    \/ HandleStartModuleToken(1, "m")
    \/ HandleStartMemoToken(1, "K")
    \/ HandleEndDefinitionToken(1)
    \/ HandleStringToken(1, "s")
    \/ HandleWordToken(1, "K")

SpecReset == Init /\ [][NextReset]_vars

\* A Tokenizer over each source of at most MaxSourceLen characters.
LexChars == {" ", ".", ";", "'", "#", ":", "@", "&", "l", "t"}

Sources(chars, n) == UNION {[1..k -> chars] : k \in 0..n}

WithSource(W, string) ==
    [W EXCEPT !.source_text = string, !.lexer = Tokenizer_init(string)]

InitTokenizer == \E string \in Sources(LexChars, MaxSourceLen) : IsWorld(WithSource(InitWorld, string))

SpecTokenizer == InitTokenizer /\ [][NextToken]_vars

\* A Tokenizer over each source that is a : or an @:, at most MaxNameLen
\* characters of names, quotes, brackets and blanks, and possibly a word.
NameChars == {"a", " ", "\"", "'", "^", "[", "]", "{", "}"}

InitDefinitionName ==
    \E start \in {<<":">>, <<"@", ":">>}, name \in Sources(NameChars, MaxNameLen),
       after \in {<<>>, <<" ", "a">>} :
        IsWorld(WithSource(InitWorld, start \o name \o after))

SpecDefinitionName == InitDefinitionName /\ [][NextToken]_vars

\* A Tokenizer over each source, whose next_token the caller goes on
\* calling for as long as it returns: the loop of _run_with_tokenizer makes
\* the next call whenever the last returned a token.
EosChars == {"#", "\n", " ", "a", ";", "'", ":"}

InitEOS ==
    \E string \in Sources(EosChars, MaxSourceLen) : IsWorld(WithSource(InitWorld, string))

SpecEOS == InitEOS /\ [][NextTokenAgain]_vars /\ WF_vars(NextTokenAgain)

\* A Tokenizer over each source of comments, lines and words.
CommentChars == {"#", "\n", " ", "a"}

InitComment ==
    \E string \in Sources(CommentChars, MaxSourceLen) : IsWorld(WithSource(InitWorld, string))

SpecComment == InitComment /\ [][NextToken]_vars

\* A Tokenizer over each source that opens a triple-quoted string and
\* goes on with at most MaxQuotedLen characters.
QuotedChars == {"'", "^", "a"}

InitTripleQuote ==
    \E d \in {"'", "^"}, rest \in Sources(QuotedChars, MaxQuotedLen) :
        IsWorld(WithSource(InitWorld, <<d, d, d>> \o rest))

SpecTripleQuote == InitTripleQuote /\ [][NextToken]_vars

\* Runs of strings from inside a run, with and without a recovery callback.
NestedWorld ==
    use_modules(add_module_word(RegisteredWorld, HostLib(RegisteredWorld),
                                "INTERPRET", "INTERPRET"),
                1, "lib", "")

InitNested == IsWorld(NestedWorld)

NextNested ==
    \/ Run(1)
    \/ SetErrorHandler(1)
    \/ HandleStringToken(1, "s")
    \/ \E name \in {"INTERPRET", "TICK", "FAIL"} : HandleWordToken(1, name)
    \/ HandleEOS(1)
    \/ HandleErrorReturns(1)
    \/ HandleErrorRaises(1)

SpecNested == InitNested /\ [][NextNested]_vars

\* Module blocks, nested and reopened, with a variable the host adds to the
\* current module.
ModuleNames == {"", "m", "lib"}

NextModule ==
    \/ Run(1)
    \/ \E name \in ModuleNames : HandleStartModuleToken(1, name)
    \/ HandleEndModuleToken(1)
    \/ Len(variables) < MaxVariables /\ AddVariable(1, "x")
    \/ HandleWordToken(1, "x")
    \/ HandleEOS(1)

SpecModule == Init /\ [][NextModule]_vars

\* The host makes a Module and calls interp.register_module(module).
RegisterModule(i, name) ==
    /\ exists[i] /\ pc[i] = "idle"
    /\ Len(modules) < MaxModules
    /\ Commit(register_module(AllocModule(World, NewModule(name)), i, Len(modules) + 1))

\* An interpreter and its duplicate: modules registered by the host and by
\* module blocks through either.
RegistryNames == {"m", "k", "lib"}

NextRegistry ==
    \/ DupInterpreter(1, 2)
    \/ \E i \in InterpIds :
           \/ RegisterModule(i, "m")
           \/ Run(i)
           \/ Len(modules) < MaxModules /\ HandleStartModuleToken(i, "k")
           \/ HandleEndModuleToken(i)
           \/ HandleEOS(i)

SpecRegistry == Init /\ [][NextRegistry]_vars

\* Modules the host registers without importing them, and module blocks
\* of the same name.
NextStartModule ==
    \/ RegisterModule(1, "m")
    \/ Run(1)
    \/ \E name \in {"m", "k"} : Len(modules) < MaxModules /\ HandleStartModuleToken(1, name)
    \/ HandleEndModuleToken(1)
    \/ HandleEOS(1)

SpecStartModule == Init /\ [][NextStartModule]_vars

\* register_literal_handler / unregister_literal_handler, between runs
UserHandlers == {LiteralHandler("to_zz", ""), LiteralHandler("to_answer", "")}

RegisterLiteralHandler(i, handler) ==
    /\ exists[i] /\ pc[i] = "idle"
    /\ Len(literal_handlers[i]) < MaxLiteralHandlers
    /\ Commit(register_literal_handler(World, i, handler))

UnregisterLiteralHandler(i, handler) ==
    /\ exists[i] /\ pc[i] = "idle"
    /\ Commit(unregister_literal_handler(World, i, handler))

\* Literals of the standard handlers and of the host's, with handlers
\* registered and unregistered between the runs.
LiteralNames == {"42", "ZZ", "TRUE"}

NextLiterals ==
    \/ Run(1)
    \/ \E handler \in UserHandlers : RegisterLiteralHandler(1, handler)
    \/ \E handler \in UserHandlers : UnregisterLiteralHandler(1, handler)
    \/ \E name \in LiteralNames : HandleWordToken(1, name)
    \/ HandleEOS(1)

SpecLiterals == Init /\ [][NextLiterals]_vars

\* Arrays, nested and over values pushed before them.
NextArray ==
    \/ Run(1)
    \/ HandleStartArrayToken(1)
    \/ HandleEndArrayToken(1)
    \/ HandleStringToken(1, "s")
    \/ HandleWordToken(1, "42")
    \/ HandleEOS(1)

SpecArray == Init /\ [][NextArray]_vars

\* Strings and other values pushed by runs, popped by the word POP and by
\* the host.
NextStack ==
    \/ Run(1)
    \/ HandleStringToken(1, "s")
    \/ \E name \in {"42", "POP"} : HandleWordToken(1, name)
    \/ HandleEOS(1)
    \/ StackPop(1)
    \/ StackPeek(1)

SpecStack == Init /\ [][NextStack]_vars

\* Pops of an empty stack: by the words POP and INTERPRET in a run and in
\* a nested run, with and without a recovery callback, and by the host.
NextUnderflow ==
    \/ Run(1)
    \/ SetErrorHandler(1)
    \/ HandleStringToken(1, "s")
    \/ \E name \in {"42", "POP", "INTERPRET"} : HandleWordToken(1, name)
    \/ HandleEOS(1)
    \/ HandleErrorReturns(1)
    \/ StackPop(1)

SpecUnderflow == InitNested /\ [][NextUnderflow]_vars

\* The variable words, and the host adding variables to the current module.
VariablesWorld ==
    use_modules(add_module_word(add_module_word(add_module_word(
                    RegisteredWorld, HostLib(RegisteredWorld), "!", "!"),
                    HostLib(RegisteredWorld), "@", "@"),
                    HostLib(RegisteredWorld), "VARIABLES", "VARIABLES"),
                1, "lib", "")

InitVariables == IsWorld(VariablesWorld)

VarNames == {"x", "__x"}

NextVariables ==
    \/ Run(1)
    \/ \E name \in VarNames : Len(variables) < MaxVariables /\ AddVariable(1, name)
    \/ \E name \in VarNames : HandleStringToken(1, name)
    \/ \E name \in VarNames \cup {"42", "!", "@", "VARIABLES"} : HandleWordToken(1, name)
    \/ HandleStartArrayToken(1)
    \/ HandleEndArrayToken(1)
    \/ HandleEOS(1)

SpecVariables == InitVariables /\ [][NextVariables]_vars

\* An interpreter with the variable x, after run(": D 42 x ! ;"), and its
\* duplicate: both store to x and call D.
SetterWorld ==
    AfterRun(add_variable(VariablesWorld, VariablesWorld.app_module[1], "x", None), 1,
             << <<"START_DEF", "D">>, <<"WORD", "42">>, <<"WORD", "x">>, <<"WORD", "!">>,
                <<"END_DEF", ";">> >>)

InitSetter == IsWorld(SetterWorld)

NextSetter ==
    \/ DupInterpreter(1, 2)
    \/ \E i \in InterpIds :
           \/ Run(i)
           \/ \E name \in {"x", "-5", "!", "D"} : HandleWordToken(i, name)
           \/ HandleEOS(i)

SpecSetter == InitSetter /\ [][NextSetter]_vars

\* An interpreter that has run `: D TICK ;`, and runs that define a word
\* TICK of their own, with known and unknown words in the body.
RedefineWorld ==
    AfterRun(InitWorld, 1,
             << <<"START_DEF", "D">>, <<"WORD", "TICK">>, <<"END_DEF", ";">> >>)

InitRedefine == IsWorld(RedefineWorld)

RedefineWords == {"TICK", "FAIL", "D", "ZZ"}

NextRedefine ==
    \/ Run(1)
    \/ HandleStartDefinitionToken(1, "TICK")
    \/ HandleEndDefinitionToken(1)
    \/ \E n \in RedefineWords : HandleWordToken(1, n)
    \/ HandleEOS(1)

SpecRedefine == InitRedefine /\ [][NextRedefine]_vars

\* An interpreter that has run `: D TICK ;`, and runs that define D again,
\* as a definition or as a memo, with D in the body.
SelfWords == {"D", "TICK"}

NextSelf ==
    \/ Run(1)
    \/ HandleStartDefinitionToken(1, "D")
    \/ HandleStartMemoToken(1, "D")
    \/ HandleEndDefinitionToken(1)
    \/ \E n \in SelfWords : HandleWordToken(1, n)
    \/ HandleEOS(1)

SpecSelf == InitRedefine /\ [][NextSelf]_vars

\* An interpreter that has run `['x'] VARIABLES 42 x ! : D x @ ;`, then
\* runs and resets.
GetterWorld ==
    AfterRun(add_variable(VariablesWorld, VariablesWorld.app_module[1], "x", None), 1,
             << <<"WORD", "42">>, <<"WORD", "x">>, <<"WORD", "!">>,
                <<"START_DEF", "D">>, <<"WORD", "x">>, <<"WORD", "@">>, <<"END_DEF", ";">> >>)

InitGetter == IsWorld(GetterWorld)

NextGetter ==
    \/ Run(1)
    \/ Reset(1)
    \/ \E name \in {"x", "@", "!", "-5", "D"} : HandleWordToken(1, name)
    \/ HandleEOS(1)

SpecGetter == InitGetter /\ [][NextGetter]_vars

\* An interpreter of each timezone runs each source that is one date-time
\* immediately followed by a zone in brackets.
DateTimes == {"2020-06-05T10:15:00", "2021-12-31T23:59:59", "2020-02-29T00:00:00"}
Zones == {"UTC", "Asia/Tokyo", "America/New_York"}

InitZoned ==
    \E tz \in Zones, dt \in DateTimes, zone \in Zones :
        IsWorld(WithSource(Interpreter_init(EmptyWorld, 1, tz),
                           Chars(dt) \o <<"[">> \o Chars(zone) \o <<"]">>))

NextZoned == RunSource(1) \/ HandleSourceToken(1)

SpecZoned == InitZoned /\ [][NextZoned]_vars

\* The host changes the timezone between runs of date-times written
\* without a zone.

NextTimezone ==
    \/ Run(1)
    \/ \E tz \in Zones : SetTimezone(1, tz)
    \/ \E dt \in DateTimes : HandleWordToken(1, dt)
    \/ HandleEOS(1)

SpecTimezone == Init /\ [][NextTimezone]_vars

\* An interpreter runs each source that is a dot, a symbol (none for the
\* lone dot), what ends the symbol, and a word or nothing after that; a
\* word may stand before the dot.
Symbols == {"", "x", "42", "K!", "p.TICK"}
SymbolEnds == {<<>>, <<" ">>, <<"\n">>, <<";">>, <<"[">>, <<"]">>, <<"{">>, <<"}">>, <<"#">>}

InitDotSymbol ==
    \E before \in {<<>>, <<"4", "2", " ">>}, symbol \in Symbols, end \in SymbolEnds,
       after \in {<<>>, <<"x">>} :
        /\ end = <<>> => after = <<>>
        /\ IsWorld(WithSource(Interpreter_init(EmptyWorld, 1, "UTC"),
                           before \o <<".">> \o Chars(symbol) \o end \o after))

NextDotSymbol == RunSource(1) \/ HandleSourceToken(1)

SpecDotSymbol == InitDotSymbol /\ [][NextDotSymbol]_vars

\* ------------------------------------------------------------- properties
Front(sq) == SubSeq(sq, 1, Len(sq) - 1)
Last(sq) == sq[Len(sq)]
Runs(runs, m) == IF m \in DOMAIN runs THEN runs[m] ELSE 0

\* This step, interpreter i fetches the WORD token `name` and, not
\* compiling, executes the word it resolves to.
ExecutesWord(i, name) ==
    /\ pc[i] \in {"direct", "recovery"} /\ ~is_compiling[i]
    /\ fetched'[i] = fetched[i] + 1
    /\ previous_token'[i].type = "WORD" /\ previous_token'[i].string = name
    /\ find_word(World, i, name).item.ref # 0

Resolved(i, name) == find_word(World, i, name).item.ref

\* The step went on without an exception leaving the token's handler.
StillRunning(i) == pc'[i] = pc[i]

\* C1: whatever tokens run has dispatched, unbalanced `}` included, the
\* module stack of an interpreter is non-empty and its bottom element is
\* the app module.
C1_ModuleStackBottom ==
    \A i \in InterpIds :
        exists[i] => Len(module_stack[i]) > 0 /\ module_stack[i][1] = app_module[i]

\* C2: with a recovery callback that always returns, a run does not go on
\* once more than max-attempts attempts have been made, and a run made with
\* recovery that raises, raises TooManyAttemptsError.
C2_TooManyAttemptsEndsRun ==
    \A i \in InterpIds :
        /\ pc[i] # "idle" => num_attempts[i] <= max_attempts[i]
        /\ (pc[i] = "idle" /\ outcome[i] = "raised" /\ num_attempts[i] > 0)
               => error[i].kind = "TooManyAttemptsError"

\* C3: an IntentionalStopError raised by a word during run leaves run as an
\* IntentionalStopError: it is neither wrapped in another error nor handed
\* to the recovery callback, at top level or inside a definition.
C3_IntentionalStopPropagates ==
    \A i \in InterpIds :
        (error[i].kind = "IntentionalStopError" \/ error[i].inner = "IntentionalStopError")
            => /\ pc[i] = "idle" /\ outcome[i] = "raised"
               /\ error[i].kind = "IntentionalStopError"

\* C4: for a memo K, executing K runs the body once when no value is cached
\* and not at all when one is; K! and K!@ run it once; K and K!@ leave on
\* the stack the value produced by the most recent run of the body that
\* produced one, and K! leaves what the body left minus that value.
C4_Step(i) ==
    /\ ExecutesWord(i, "K") =>
           IF words[Resolved(i, "K")].has_value
           THEN /\ Runs(body_runs', Resolved(i, "K")) = Runs(body_runs, Resolved(i, "K"))
                /\ stack'[i] = Append(stack[i], Last(body_stack[Resolved(i, "K")]))
           ELSE /\ Runs(body_runs', Resolved(i, "K")) = Runs(body_runs, Resolved(i, "K")) + 1
                /\ StillRunning(i) => stack'[i] = body_stack'[Resolved(i, "K")]
    /\ ExecutesWord(i, "K!") =>
           /\ Runs(body_runs', words[Resolved(i, "K!")].target)
                  = Runs(body_runs, words[Resolved(i, "K!")].target) + 1
           /\ StillRunning(i) =>
                  stack'[i] = Front(body_stack'[words[Resolved(i, "K!")].target])
    /\ ExecutesWord(i, "K!@") =>
           /\ Runs(body_runs', words[Resolved(i, "K!@")].target)
                  = Runs(body_runs, words[Resolved(i, "K!@")].target) + 1
           /\ StillRunning(i) =>
                  stack'[i] = body_stack'[words[Resolved(i, "K!@")].target]

C4_MemoSemantics == [][C4_Step(1)]_vars

\* A cached K has run: one run of the body, its value on the stack twice.
C4_Witness ==
    \E m \in DOMAIN body_runs :
        /\ body_runs[m] = 1 /\ words[m].has_value
        /\ stack[1] = <<words[m].value, words[m].value>>

\* C5: when a sub-word of a definition raises, the WordExecutionError run
\* raises has as call location the location of the token being executed
\* and as definition location the location the sub-word's token had in the
\* text of the definition.
C5_ErrorLocations ==
    \A i \in InterpIds :
        (outcome[i] = "raised" /\ error[i].kind = "WordExecutionError")
            => /\ error[i].location = previous_token[i].location
               /\ error[i].definition_location = error[i].token

\* C6: the word added last under a name is the one found: a definition
\* just completed is what find_word returns for its name, whatever was
\* imported or defined under that name before; and the words of a module
\* just imported without a prefix are what the app module finds under their
\* names.
C6_Step(i) ==
    /\ (is_compiling[i] /\ ~is_compiling'[i]) =>
           /\ find_word(World', i, cur_definition[i].name).item.ref > Len(words)
           /\ words'[find_word(World', i, cur_definition[i].name).item.ref].kind
                  = "DefinitionWord"
           /\ words'[find_word(World', i, cur_definition[i].name).item.ref].name
                  = cur_definition[i].name
    /\ (pc[i] = "idle" /\ exists[i]
            /\ modules'[app_module[i]].words # modules[app_module[i]].words) =>
           \A n \in LibWords :
               find_dictionary_word(World', app_module[i], n)
                   = find_dictionary_word(World, HostLib(World), n)

C6_NewestWordWins == [][C6_Step(1)]_vars

\* The app module holds the imported TICK and, added later, a user
\* definition TICK, and TICK resolves to the user definition.
C6_Witness ==
    \E a, b \in 1..Len(modules[app_module[1]].words) :
        /\ a < b
        /\ words[modules[app_module[1]].words[a]].kind = "ModuleWord"
        /\ words[modules[app_module[1]].words[a]].name = "TICK"
        /\ words[modules[app_module[1]].words[b]].kind = "DefinitionWord"
        /\ words[modules[app_module[1]].words[b]].name = "TICK"
        /\ find_word(World, 1, "TICK").item.ref = modules[app_module[1]].words[b]

\* C7: find_word returns the match of the topmost module of the stack that
\* has one (its newest dictionary word of that name, else its variable);
\* with no match on the stack, the value of the first literal handler that
\* accepts the name; otherwise it raises UnknownWordError with the name.
HasDictionaryWord(m, n) ==
    \E k \in 1..Len(modules[m].words) : words[modules[m].words[k]].name = n

HasVariable(m, n) == n \in DOMAIN modules[m].variables

NewestDictionaryWord(m, n) ==
    modules[m].words[Max({k \in 1..Len(modules[m].words) :
                              words[modules[m].words[k]].name = n})]

TopmostMatch(i, n) ==
    module_stack[i][Max({k \in 1..Len(module_stack[i]) :
                             \/ HasDictionaryWord(module_stack[i][k], n)
                             \/ HasVariable(module_stack[i][k], n)})]

FirstLiteral(i, n) ==
    ApplyLiteralHandler(
        literal_handlers[i][Min({h \in 1..Len(literal_handlers[i]) :
                                     ApplyLiteralHandler(literal_handlers[i][h], n) # None})],
        n)

C7_Lookup(i, n) ==
    IF \E k \in 1..Len(module_stack[i]) :
           HasDictionaryWord(module_stack[i][k], n) \/ HasVariable(module_stack[i][k], n)
    THEN IF HasDictionaryWord(TopmostMatch(i, n), n)
         THEN find_word(World, i, n).item = RefItem(NewestDictionaryWord(TopmostMatch(i, n), n))
         ELSE find_word(World, i, n).item
                  = PushValueWord(n, VarHandle(modules[TopmostMatch(i, n)].variables[n]))
    ELSE IF \E h \in 1..Len(literal_handlers[i]) :
                ApplyLiteralHandler(literal_handlers[i][h], n) # None
         THEN find_word(World, i, n).item = PushValueWord(n, FirstLiteral(i, n))
         ELSE /\ find_word(World, i, n).item = NoItem
              /\ find_word(World, i, n).exc.kind = "UnknownWordError"
              /\ find_word(World, i, n).exc.name = n

C7_FindWordOrder == \A n \in LookupNames : C7_Lookup(1, n)

\* Inside module m, which has nothing named 42, the app module below has a
\* definition and a variable of that name: 42 resolves to the definition.
C7_Witness ==
    /\ Len(module_stack[1]) = 2
    /\ ~HasDictionaryWord(module_stack[1][2], "42")
    /\ ~HasVariable(module_stack[1][2], "42")
    /\ HasDictionaryWord(module_stack[1][1], "42")
    /\ HasVariable(module_stack[1][1], "42")
    /\ find_word(World, 1, "42").item.ref # 0
    /\ words[find_word(World, 1, "42").item.ref].kind = "DefinitionWord"

\* C8: once an interpreter has a duplicate, a token executed by one of the
\* two leaves the other's data stack, module stack and app module as they
\* were, and the other resolves D as it did before.
C8_Step(i, j) ==
    (exists[i] /\ exists[j] /\ fetched'[i] # fetched[i]) =>
        /\ stack'[j] = stack[j]
        /\ module_stack'[j] = module_stack[j]
        /\ modules'[app_module[j]] = modules[app_module[j]]
        /\ find_word(World', j, "D") = find_word(World, j, "D")

C8_DuplicateIndependent == [][C8_Step(1, 2) /\ C8_Step(2, 1)]_vars

\* The duplicate has defined D and pushed: the original neither resolves D
\* nor has the value.
C8_Witness ==
    /\ exists[2]
    /\ find_word(World, 2, "D").exc.kind = "none"
    /\ find_word(World, 1, "D").exc.kind = "UnknownWordError"
    /\ Len(stack[2]) > Len(stack[1])

\* C9: when the handler of a ModuleWord raises an error other than
\* IntentionalStopError, the word's error handlers are called in
\* registration order up to the first that returns, which suppresses the
\* error; if all raise, the original error leaves the word; on
\* IntentionalStopError no error handler is called and the stop leaves.
HandlerCalls(id, n) == [k \in 1..n |-> [word |-> id, handler |-> k]]

Returning(id) ==
    {k \in 1..Len(words[id].error_handlers) : words[id].error_handlers[k] = "ok"}

C9_Word(i, id) ==
    CASE words[id].handler = "FAIL" ->
             IF Returning(id) # {}
             THEN /\ eh_log' = HandlerCalls(id, Min(Returning(id)))
                  /\ StillRunning(i)
             ELSE /\ eh_log' = HandlerCalls(id, Len(words[id].error_handlers))
                  /\ outcome'[i] = "raised" /\ error'[i].kind = "ValueError"
      [] words[id].handler = "STOP" ->
             /\ eh_log' = <<>>
             /\ outcome'[i] = "raised" /\ error'[i].kind = "IntentionalStopError"

C9_Step(i) == \A n \in HandledWords : ExecutesWord(i, n) => C9_Word(i, Resolved(i, n))

C9_WordErrorHandlers == [][C9_Step(1)]_vars

\* FAIL has run with a handler that raises followed by one that returns:
\* both were called, in that order, and the run goes on.
C9_Witness ==
    /\ pc[1] = "direct" /\ Len(eh_log) = 2
    /\ eh_log[1].handler = 1 /\ eh_log[2].handler = 2
    /\ words[eh_log[1].word].error_handlers = <<"raise", "ok">>

\* C10: during one run the recovery callback is called at most
\* max-attempts times.
C10_CallbackCalls ==
    \A i \in InterpIds : pc[i] # "idle" => handler_calls[i] <= max_attempts[i]

\* The kind of the exception that left the handler of the token interpreter
\* i fetched in this step, "none" if the handler returned.
RaisedKind(i) ==
    IF pc'[i] = "handler" \/ (pc'[i] = "idle" /\ outcome'[i] = "raised")
    THEN error'[i].kind
    ELSE "none"

\* C11: the handler of a token raises MissingSemicolonError exactly when the
\* token is START_DEF, START_MEMO or EOS and a definition is being compiled,
\* and ExtraSemicolonError exactly when the token is END_DEF and none is;
\* no step other than the dispatch of a token produces either error.
C11_Step(i) ==
    IF fetched'[i] # fetched[i]
    THEN /\ RaisedKind(i) = "MissingSemicolonError"
               <=> /\ previous_token'[i].type \in {"START_DEF", "START_MEMO", "EOS"}
                   /\ is_compiling[i]
         /\ RaisedKind(i) = "ExtraSemicolonError"
               <=> previous_token'[i].type = "END_DEF" /\ ~is_compiling[i]
    ELSE error'[i] # error[i]
             => error'[i].kind \notin {"MissingSemicolonError", "ExtraSemicolonError"}

C11_SemicolonErrors == [][C11_Step(1)]_vars

\* A memo was begun inside an unfinished definition: the recovery callback
\* has the MissingSemicolonError.
C11_Witness ==
    /\ pc[1] = "handler" /\ error[1].kind = "MissingSemicolonError"
    /\ previous_token[1].type = "START_MEMO"
    /\ is_compiling[1] /\ cur_definition[1].name = "D"

\* This step imports module "lib" into the app module of interpreter i
\* under `prefix`.
Imports(i, prefix) ==
    /\ exists[i] /\ pc[i] = "idle"
    /\ \A k \in 1..Len(modules[app_module[i]].module_prefixes) :
           prefix \notin modules[app_module[i]].module_prefixes[k].prefixes
    /\ \E k \in 1..Len(modules'[app_module[i]].module_prefixes) :
           prefix \in modules'[app_module[i]].module_prefixes[k].prefixes

Exportable(n) ==
    \E k \in 1..Len(modules[HostLib(World)].exportable) :
        modules[HostLib(World)].exportable[k] = n

LibWord(n) == find_dictionary_word(World, HostLib(World), n)

\* C12: an import of lib under the prefix p makes p.n resolve, for every
\* exportable word n of lib, to an ExecuteWord that executes lib's n, and
\* changes nothing in what the bare names and the names p.n of words that
\* are not exportable resolve to; an import under the empty prefix makes
\* the exportable bare names resolve to lib's words and no others.
C12_Step(i) ==
    /\ Imports(i, "p") =>
           \A n \in {"TICK", "HID"} :
               /\ find_word(World', i, n) = find_word(World, i, n)
               /\ IF Exportable(n)
                  THEN /\ find_word(World', i, "p." \o n).item.ref > Len(words)
                       /\ words'[find_word(World', i, "p." \o n).item.ref].kind = "ExecuteWord"
                       /\ execute(World', i, find_word(World', i, "p." \o n).item)
                              = execute(World', i, RefItem(LibWord(n)))
                  ELSE find_word(World', i, "p." \o n) = find_word(World, i, "p." \o n)
    /\ Imports(i, "") =>
           \A n \in {"TICK", "HID"} :
               /\ find_word(World', i, "p." \o n) = find_word(World, i, "p." \o n)
               /\ IF Exportable(n)
                  THEN find_word(World', i, n).item = RefItem(LibWord(n))
                  ELSE find_word(World', i, n) = find_word(World, i, n)

C12_PrefixedImport == [][C12_Step(1)]_vars

\* lib is imported under p only: p.TICK is a wrapper of lib's TICK and has
\* run, while TICK, HID and p.HID are unknown.
C12_Witness ==
    /\ find_word(World, 1, "p.TICK").item.ref # 0
    /\ words[find_word(World, 1, "p.TICK").item.ref].target = LibWord("TICK")
    /\ find_word(World, 1, "TICK").exc.kind = "UnknownWordError"
    /\ find_word(World, 1, "HID").exc.kind = "UnknownWordError"
    /\ find_word(World, 1, "p.HID").exc.kind = "UnknownWordError"
    /\ previous_token[1].string = "p.TICK" /\ stack[1] = <<IntVal(1)>>

\* C13: a reset leaves the data stack empty, the app module without
\* variables, the module stack equal to [app module], no definition being
\* compiled and no last string location; the registered modules, the word
\* list of every module and the word objects (memo caches included) are
\* what they were.
C13_Step(i) ==
    Reset(i) =>
        /\ stack'[i] = <<>>
        /\ DOMAIN modules'[app_module'[i]].variables = {}
        /\ module_stack'[i] = <<app_module'[i]>>
        /\ ~is_compiling'[i] /\ cur_definition'[i].isnone
        /\ string_location'[i] = NoLoc
        /\ app_module'[i] = app_module[i]
        /\ registered_modules' = registered_modules /\ registries' = registries
        /\ Len(modules') = Len(modules)
        /\ \A m \in 1..Len(modules) : modules'[m].words = modules[m].words
        /\ words' = words

C13_ResetFrame == [][C13_Step(1)]_vars

\* After the memo K cached a string and left it on the stack, a stray `;`
\* ended the run and a reset followed: the stack is empty, the last string
\* location is cleared and the memo still holds its value.
C13_Witness ==
    /\ pc[1] = "idle" /\ error[1].kind = "ExtraSemicolonError"
    /\ stack[1] = <<>> /\ string_location[1] = NoLoc
    /\ \E k \in 1..Len(words) :
           /\ words[k].kind = "ModuleMemoWord" /\ words[k].name = "K"
           /\ words[k].has_value /\ words[k].value = StrVal("s")

\* Python's S[a:b] on a sequence of characters.
Slice(S, a, b) == SubSeq(S, a + 1, Min({b, Len(S)}))

\* C14: for every token next_token returns, the slice of the source from
\* the token's start_pos to its end_pos is the token's string; for a STRING
\* token that is the content between the delimiters.
C14_TokenPositions ==
    (lexed.exc = "none" /\ lexed.token.type # "none")
        => Slice(source_text, lexed.token.location.start_pos,
                 lexed.token.location.end_pos) = lexed.token.string

\* The offsets k of rest at which three consecutive d stand that no fourth d
\* follows.
Closings(rest, d) ==
    {k \in 0..(Len(rest) - 3) :
        /\ \A j \in 1..3 : rest[k + j] = d
        /\ (k + 4 > Len(rest) \/ rest[k + 4] # d)}

HasTriple(X, d) == \E k \in 0..(Len(X) - 3) : \A j \in 1..3 : X[k + j] = d

\* The first token of a source d d d rest.
C15_First(rest, d) ==
    IF Closings(rest, d) = {}
    THEN lexed'.exc = "UnterminatedStringError"
    ELSE /\ lexed'.exc = "none"
         /\ lexed'.token.type = "STRING"
         /\ lexed'.token.string = SubSeq(rest, 1, Min(Closings(rest, d)))
         /\ lexer'.input_pos = 3 + Min(Closings(rest, d)) + 3
         /\ (~HasTriple(SubSeq(rest, 1, Len(rest) - 3), d)
                 /\ Len(rest) >= 3 /\ \A j \in 0..2 : rest[Len(rest) - j] = d)
               => /\ lexed'.token.string = SubSeq(rest, 1, Len(rest) - 3)
                  /\ Tokenizer_next_token(lexer').token.type = "EOS"

\* C15: a triple-quoted string opened by d d d closes at the first three
\* consecutive d that no fourth d follows, its content being everything
\* before them (one d joins the content for each triple a fourth d follows,
\* and other quote characters never close it); so d d d X d d d with no
\* d d d in X is the single STRING token X; with no closing the tokenizer
\* raises UnterminatedStringError.
C15_Step ==
    lexed = NotLexed
        => C15_First(SubSeq(source_text, 4, Len(source_text)), source_text[1])

C15_TripleQuoteClosing == [][C15_Step]_vars

C15_Witness ==
    /\ source_text = <<"'", "'", "'", "^", "a", "'", "'", "'", "'">>
    /\ lexed.exc = "none" /\ lexed.token.type = "STRING"
    /\ lexed.token.string = <<"^", "a", "'">>
    /\ AtEnd(lexer)

\* The characters of source_text before its "[" and between its brackets.
BracketAt == CHOOSE k \in 1..Len(source_text) : source_text[k] = "["
WrittenDateTime == Lexeme(SubSeq(source_text, 1, BracketAt - 1))
BracketedZone == Lexeme(SubSeq(source_text, BracketAt + 1, Len(source_text) - 1))

\* C16: the run of a source that is the single lexeme
\* <date>T<time>[<zone>] returns with exactly one value on the stack, the
\* date-time written in the bracketed zone, whatever the interpreter's
\* timezone is.
C16_BracketedZone ==
    (pc[1] = "idle" /\ lexed # NotLexed)
        => /\ outcome[1] = "returned"
           /\ Len(stack[1]) = 1
           /\ stack[1][1].t = "datetime"
           /\ stack[1][1].s = WrittenDateTime
           /\ stack[1][1].items = <<StrVal(BracketedZone)>>

\* C17: no module holds a variable whose name starts with two underscores:
\* every creation of such a variable raises InvalidVariableNameError.
C17_NoDunderVariables ==
    \A m \in 1..Len(modules) : \A name \in VarNames :
        Has(modules[m].variables, name) => ~startswith(Chars(name), <<"_", "_">>)

\* The three parts of C18, for interpreter i: a step that starts a nested
\* run, a step that dispatches a token while a nested run is in progress,
\* and a step in which a nested run returns.
NestedStarts(i) ==
    Len(run_stack'[i]) > Len(run_stack[i])
        => /\ Len(tokenizer_stack'[i]) = Len(tokenizer_stack[i]) + 1
           /\ tokenizer_stack'[i][Len(tokenizer_stack'[i])] = Tokenizer(sources + 1)
           /\ sources' = sources + 1
           /\ \A k \in 1..Len(tokenizer_stack[i]) :
                  /\ tokenizer_stack'[i][k].source = tokenizer_stack[i][k].source
                  /\ k < Len(tokenizer_stack[i])
                         => tokenizer_stack'[i][k] = tokenizer_stack[i][k]
           /\ tokenizer_stack'[i][Len(tokenizer_stack[i])].pos
                  = previous_token'[i].location.pos

NestedDispatches(i) ==
    (run_stack[i] # <<>> /\ fetched'[i] # fetched[i])
        => /\ previous_token'[i].location.source
                  = tokenizer_stack[i][Len(tokenizer_stack[i])].source
           /\ \A k \in 1..(Len(tokenizer_stack[i]) - 1) :
                  /\ tokenizer_stack'[i][k] = tokenizer_stack[i][k]
                  /\ tokenizer_stack[i][k].source
                         # tokenizer_stack[i][Len(tokenizer_stack[i])].source

NestedReturns(i) ==
    (/\ Len(run_stack'[i]) = Len(run_stack[i]) - 1
     /\ Len(tokenizer_stack'[i]) = Len(tokenizer_stack[i]) - 1)
        => /\ tokenizer_stack'[i] = Front(tokenizer_stack[i])
           /\ previous_token'[i].type = "EOS"
           /\ previous_token'[i].location.source
                  = tokenizer_stack[i][Len(tokenizer_stack[i])].source
           /\ pc'[i] = run_stack[i][Len(run_stack[i])].pc

\* C18: a run started by a word while a run is in progress pushes its
\* tokenizer above the others, which stay as they are; while it is in
\* progress every token dispatched is a token of its source; it returns at
\* the EOS of its source, and then the tokenizer of the suspended run is on
\* top again, at the position where it stood, and that run goes on; each
\* token dispatched is the next one of the tokenizer on top.
C18_Step ==
    /\ NestedStarts(1) /\ NestedDispatches(1) /\ NestedReturns(1)
    /\ fetched'[1] # fetched[1]
           => previous_token'[1].location
                  = NextTokenLocation(tokenizer_stack[1][Len(tokenizer_stack[1])])

C18_NestedRun == [][C18_Step]_vars

C18_Witness ==
    /\ pc[1] = "direct" /\ run_stack[1] = <<>>
    /\ sources = 2
    /\ tokenizer_stack[1] = <<[Tokenizer(1) EXCEPT !.pos = 3, !.token_location = Loc(1, 3)]>>
    /\ stack[1] = <<IntVal(1), IntVal(2)>>

\* What a pop or a peek of the value `top` hands to its caller, and the
\* location a pop of it leaves in _string_location.
Decayed(top) == IF top.t = "pstr" THEN StrVal(top.s) ELSE top
LocationOf(top) == IF top.t = "pstr" THEN top.loc ELSE NoLoc

\* The word POP executed on a stack that is not empty.
PopWord(i) ==
    /\ fetched'[i] # fetched[i]
    /\ previous_token'[i].type = "WORD" /\ previous_token'[i].string = "POP"
    /\ stack[i] # <<>>

\* C19: a stack_pop that succeeds removes the top value, hands it to its
\* caller (a positioned string as a plain string) and leaves in
\* _string_location the location of a positioned string and nothing for
\* any other value; stack_peek hands over the same value and changes
\* neither the stack nor _string_location.
C19_Step(i) ==
    /\ (StackPop(i) /\ stack[i] # <<>>)
           => /\ returned'.exc = NoError
              /\ returned'.result = Decayed(Last(stack[i]))
              /\ stack'[i] = Front(stack[i])
              /\ string_location'[i] = LocationOf(Last(stack[i]))
    /\ PopWord(i)
           => /\ stack'[i] = Front(stack[i])
              /\ string_location'[i] = LocationOf(Last(stack[i]))
    /\ (StackPeek(i) /\ stack[i] # <<>>)
           => /\ returned'.exc = NoError
              /\ returned'.result = Decayed(Last(stack[i]))
              /\ stack'[i] = stack[i]
              /\ string_location'[i] = string_location[i]

C19_PopAndPeek == [][C19_Step(1)]_vars

C19_Witness ==
    /\ returned.op = "stack_peek" /\ returned.result = StrVal("s")
    /\ Len(stack[1]) = 1 /\ stack[1][1].t = "pstr" /\ stack[1][1].loc # NoLoc
    /\ string_location[1] = NoLoc
    /\ fetched[1] = 5

\* C20: stack_pop on an empty stack raises StackUnderflowError and leaves
\* the stack empty; raised in a run, the error carries the location of the
\* token being executed, the one the tokenizer on top of the tokenizer
\* stack returned last.
C20_Step(i) ==
    /\ (fetched'[i] # fetched[i] /\ RaisedKind(i) = "StackUnderflowError")
           => /\ stack'[i] = <<>>
              /\ error'[i].location = previous_token'[i].location
              /\ error'[i].location = get_token_location(World, i)'
              /\ error'[i].location # NoLoc
    /\ (fetched'[i] # fetched[i] /\ stack[i] = <<>> /\ ~is_compiling[i]
            /\ previous_token'[i].type = "WORD"
            /\ previous_token'[i].string \in {"POP", "INTERPRET"})
           => RaisedKind(i) = "StackUnderflowError"
    /\ (StackPop(i) /\ stack[i] = <<>>)
           => /\ returned'.exc.kind = "StackUnderflowError"
              /\ stack'[i] = <<>>

C20_StackUnderflow == [][C20_Step(1)]_vars

C20_Witness ==
    /\ pc[1] = "idle" /\ outcome[1] = "raised"
    /\ error[1].kind = "StackUnderflowError" /\ error[1].location = Loc(2, 2)
    /\ Len(tokenizer_stack[1]) = 2
    /\ stack[1] = <<>>

\* The position of the START_ARRAY token nearest to the top of a stack (0
\* when there is none), and the values above position k as an array holds
\* them.
Sentinel(st) == Max({0} \cup {k \in 1..Len(st) : st[k].t = "token"})
ItemsAbove(st, k) == [j \in 1..(Len(st) - k) |-> Decayed(st[k + j])]

\* C21: END_ARRAY dispatched outside compilation replaces the nearest
\* START_ARRAY token and the values above it by one array of those values
\* in the order they were pushed, positioned strings as plain strings; what
\* lies below the START_ARRAY token stays.
C21_Step(i) ==
    (/\ fetched'[i] # fetched[i]
     /\ previous_token'[i].type = "END_ARRAY"
     /\ ~is_compiling[i]
     /\ Sentinel(stack[i]) > 0)
        => /\ stack'[i] = Append(SubSeq(stack[i], 1, Sentinel(stack[i]) - 1),
                                 ArrayVal(ItemsAbove(stack[i], Sentinel(stack[i]))))
           /\ pc'[i] = pc[i]

C21_EndArray == [][C21_Step(1)]_vars

C21_Witness ==
    /\ previous_token[1].type = "END_ARRAY"
    /\ stack[1] = <<ArrayVal(<<StrVal("s"), ArrayVal(<<>>)>>)>>

\* START_MODULE executed by interpreter i for name, the current module
\* being cur.
StartsModule(i, name, cur) ==
    IF name = ""
    THEN /\ module_stack'[i] = Append(module_stack[i], app_module[i])
         /\ modules' = modules /\ registries' = registries
    ELSE IF Has(modules[cur].modules, name)
    THEN /\ module_stack'[i] = Append(module_stack[i], modules[cur].modules[name])
         /\ modules' = modules /\ registries' = registries
    ELSE /\ Len(modules') = Len(modules) + 1
         /\ modules'[Len(modules')].name = name
         /\ modules'[Len(modules')].words = <<>>
         /\ \A m \in 1..Len(modules) : m # cur => modules'[m] = modules[m]
         /\ modules'[cur].modules = Put(modules[cur].modules, name, Len(modules'))
         /\ modules'[cur].words = modules[cur].words
         /\ module_stack'[i] = Append(module_stack[i], Len(modules'))
         /\ registries'
                = IF cur = app_module[i]
                  THEN [registries EXCEPT ![registered_modules[i]] =
                                              Put(@, name, Len(modules'))]
                  ELSE registries

\* C22: START_MODULE with an empty name pushes the app module; with the
\* name of a sub-module of the current module it pushes that module and
\* creates nothing; with any other name it creates a module, registers it
\* with the current module, registers it with the interpreter exactly when
\* the current module is the app module, and pushes it.
C22_Step(i) ==
    (/\ fetched'[i] # fetched[i]
     /\ previous_token'[i].type = "START_MODULE"
     /\ module_stack[i] # <<>>)
        => StartsModule(i, previous_token'[i].string, Last(module_stack[i]))

C22_StartModule == [][C22_Step(1)]_vars

\* The variable added inside the first {m block is found inside the second.
C22_Witness ==
    /\ Len(module_stack[1]) = 2 /\ fetched[1] = 4
    /\ modules[module_stack[1][2]].name = "m"
    /\ Has(modules[module_stack[1][2]].variables, "x")
    /\ previous_token[1].string = "x"
    /\ stack[1] = <<VarHandle(modules[module_stack[1][2]].variables["x"])>>

\* ---------------------------------------------------------------- C23
\* The handlers find_literal_word calls for a name: those up to and
\* including the first that accepts it, all of them when none does.
Accepting(handlers, n) ==
    {k \in 1..Len(handlers) : ApplyLiteralHandler(handlers[k], n) # None}

Consulted(handlers, n) ==
    IF Accepting(handlers, n) = {} THEN {handlers[k] : k \in 1..Len(handlers)}
    ELSE {handlers[k] : k \in 1..Min(Accepting(handlers, n))}

LiteralDispatch(i, n) ==
    /\ HandleWordToken(i, n)
    /\ find_in_module_stack(World, i, n, Len(module_stack[i])) = NoItem

\* C23: a word not found on the module stack is offered to the standard
\* handlers in the order boolean, float, zoned datetime, date, time,
\* integer and then to the registered handlers in registration order, the
\* first value that is not None being pushed; a registered handler is not
\* consulted for a lexeme a standard handler accepts, and once a handler
\* has been unregistered no lookup consults it.
C23_Step(i) ==
    /\ \A n \in LiteralNames :
           LiteralDispatch(i, n) =>
               /\ SubSeq(literal_handlers[i], 1, 6) = StandardLiterals(timezone[i])
               /\ \A k \in 7..Len(literal_handlers[i]) :
                       literal_handlers[i][k] \in UserHandlers
               /\ IF Accepting(literal_handlers[i], n) = {}
                  THEN RaisedKind(i) = "UnknownWordError"
                  ELSE /\ stack'[i] = Append(stack[i], FirstLiteral(i, n))
                       /\ Accepting(StandardLiterals(timezone[i]), n) # {}
                              => Consulted(literal_handlers[i], n) \cap UserHandlers = {}
    /\ \A handler \in UserHandlers :
           UnregisterLiteralHandler(i, handler) =>
               \A n \in LiteralNames : handler \notin Consulted(literal_handlers'[i], n)

C23_LiteralHandlers == [][C23_Step(1)]_vars

\* ---------------------------------------------------------------- C24
\* The position of the first character at or after position p that is not
\* whitespace, the length of the input when there is none.
SkipWhitespace(T, p) ==
    Min({k \in p..(Len(T.input_string) - 1) : ~_is_whitespace(CharAt(T, k))}
            \cup {Len(T.input_string)})

\* The position of the first newline at or after position p, the length of
\* the input when there is none.
LineEnd(T, p) ==
    Min({k \in p..(Len(T.input_string) - 1) : CharAt(T, k) = "\n"}
            \cup {Len(T.input_string)})

StartsComment(T) ==
    /\ SkipWhitespace(T, T.input_pos) < Len(T.input_string)
    /\ CharAt(T, SkipWhitespace(T, T.input_pos)) = "#"

C24_Step ==
    (NextToken /\ StartsComment(lexer)) =>
        /\ lexed'.exc = "none" /\ lexed'.token.type = "COMMENT"
        /\ lexed'.token.string
               = Slice(lexer.input_string, SkipWhitespace(lexer, lexer.input_pos) + 1,
                       LineEnd(lexer, SkipWhitespace(lexer, lexer.input_pos) + 1))
        /\ lexer'.input_pos = LineEnd(lexer, SkipWhitespace(lexer, lexer.input_pos) + 1)

\* C24: a # starts a COMMENT token whose string is the text after the # up
\* to, and without, the next newline (the end of the input when there is
\* none); the newline is left in the input.
C24_Comment == [][C24_Step]_vars

\* ---------------------------------------------------------------- C25
WordDelimiters == {";", "[", "]", "{", "}", "#"}

\* The position of the first whitespace or delimiter at or after position
\* p, the length of the input when there is none.
WordEnd(T, p) ==
    Min({k \in p..(Len(T.input_string) - 1) :
             _is_whitespace(CharAt(T, k)) \/ CharAt(T, k) \in WordDelimiters}
            \cup {Len(T.input_string)})

StartsWithDot(T) ==
    /\ SkipWhitespace(T, T.input_pos) < Len(T.input_string)
    /\ CharAt(T, SkipWhitespace(T, T.input_pos)) = "."

DelimiterToken(char) ==
    CASE char = ";" -> "END_DEF"
      [] char = "[" -> "START_ARRAY"
      [] char = "]" -> "END_ARRAY"
      [] char = "{" -> "START_MODULE"
      [] char = "}" -> "END_MODULE"
      [] char = "#" -> "COMMENT"

\* The token made of the dot at position p, whose text ends before e.
DotToken(i, T, p, e) ==
    /\ lexed'.exc = "none"
    /\ IF e - p >= 2
       THEN /\ lexed'.token.type = "DOT_SYMBOL"
            /\ lexed'.token.string = Slice(T.input_string, p + 1, e)
            /\ pc'[i] = "direct"
            /\ Len(stack'[i]) = Len(stack[i]) + 1
            /\ Front(stack'[i]) = stack[i]
            /\ Decayed(Last(stack'[i]))
                   = StrVal(Lexeme(Slice(T.input_string, p + 1, e)))
       ELSE /\ lexed'.token.type = "WORD"
            /\ lexed'.token.string = <<".">>
    /\ (e < Len(T.input_string) /\ CharAt(T, e) \in WordDelimiters) =>
           /\ lexer'.input_pos = e
           /\ Tokenizer_next_token(lexer').exc = "none"
           /\ Tokenizer_next_token(lexer').token.type = DelimiterToken(CharAt(T, e))

\* C25: a token that starts with a dot and has at least one more character
\* before the next whitespace or ; [ ] { } # is a DOT_SYMBOL whose string
\* is the text after the dot, and executing it pushes that text as a
\* string; a dot alone is the WORD "."; the delimiter that ends either is
\* left in the input and starts the next token.
C25_Step(i) ==
    (HandleSourceToken(i) /\ StartsWithDot(lexer)) =>
        DotToken(i, lexer, SkipWhitespace(lexer, lexer.input_pos),
                 WordEnd(lexer, SkipWhitespace(lexer, lexer.input_pos)))

C25_DotSymbol == [][C25_Step(1)]_vars

\* After the first two tokens of `42 .42;x`: the string 42 is on the stack
\* above the integer, and the ; is still to be read.
C25_Witness ==
    /\ source_text = <<"4", "2", " ", ".", "4", "2", ";", "x">>
    /\ lexed.token.type = "DOT_SYMBOL"
    /\ lexer.input_pos = 6
    /\ stack[1] = <<IntVal(42), stack[1][2]>>
    /\ Decayed(stack[1][2]) = StrVal("42")

\* ---------------------------------------------------------------- C26
\* The length of what starts a definition at position p: 1 for :, 2 for
\* @:, 0 when neither stands there.
DefinitionStart(T, p) ==
    IF p >= Len(T.input_string) THEN 0
    ELSE IF CharAt(T, p) = ":" THEN 1
    ELSE IF _is_start_memo(T, p) THEN 2
    ELSE 0

\* The position of the first whitespace at or after position p, the length
\* of the input when there is none.
NameEnd(T, p) ==
    Min({k \in p..(Len(T.input_string) - 1) : _is_whitespace(CharAt(T, k))}
            \cup {Len(T.input_string)})

\* The name that starts at position q is refused.
BadName(T, q) ==
    \/ q >= Len(T.input_string)
    \/ \E k \in q..(NameEnd(T, q) - 1) :
           CharAt(T, k) \in QuoteChars \cup {"[", "]", "{", "}"}

\* next_token on a : or @: at position p whose name starts at position q.
DefinitionToken(T, p, q) ==
    IF BadName(T, q)
    THEN /\ lexed'.exc = "InvalidWordNameError"
         /\ lexed'.token.type \notin {"START_DEF", "START_MEMO"}
    ELSE /\ lexed'.exc = "none"
         /\ lexed'.token.type = IF DefinitionStart(T, p) = 1 THEN "START_DEF" ELSE "START_MEMO"
         /\ lexed'.token.string = Slice(T.input_string, q, NameEnd(T, q))

C26_Step ==
    (NextToken /\ DefinitionStart(lexer, SkipWhitespace(lexer, lexer.input_pos)) > 0) =>
        DefinitionToken(lexer, SkipWhitespace(lexer, lexer.input_pos),
            SkipWhitespace(lexer, SkipWhitespace(lexer, lexer.input_pos)
                                      + DefinitionStart(lexer, SkipWhitespace(lexer, lexer.input_pos))))

\* C26: after : or @:, when the name, the characters up to the next
\* whitespace, has a quote character (double quote, single quote, caret) or
\* one of [ ] { } in it, or the input ends before a character of the name,
\* next_token raises InvalidWordNameError and returns no START_DEF or
\* START_MEMO token; otherwise it returns that token with the name.
C26_InvalidWordName == [][C26_Step]_vars

\* `@: a[` was refused for the bracket inside the name.
C26_Witness ==
    /\ source_text = <<"@", ":", " ", "a", "[">>
    /\ lexed.exc = "InvalidWordNameError"
    /\ lexer.input_pos = 5

\* ---------------------------------------------------------------- C27
SameRegistry(W) ==
    \A name \in RegistryNames : find_module(W, 1, name) = find_module(W, 2, name)

\* C27: after d = dup_interpreter(i) the two interpreters have one map of
\* registered modules, so that a module registered through either is what
\* find_module returns on the other, and each has an app module of its own.
C27_Step ==
    (exists[1] /\ exists[2]) =>
        /\ SameRegistry(World')
        /\ app_module' = app_module /\ app_module[1] # app_module[2]
        /\ \A i \in InterpIds, name \in RegistryNames :
               RegisterModule(i, name) =>
                   /\ find_module(World', 3 - i, name) = Len(modules')
                   /\ modules'[Len(modules')].name = name

C27_SharedRegistry == [][C27_Step]_vars

\* The duplicate is inside the block of a module k that its run created
\* and registered, and the first interpreter finds that module.
C27_Witness ==
    /\ exists[2] /\ Len(module_stack[2]) = 2
    /\ modules[module_stack[2][2]].name = "k"
    /\ find_module(World, 1, "k") = module_stack[2][2]
    /\ find_module(World, 2, "m") > app_module[2]

\* ---------------------------------------------------------------- C28
\* A call that returns a token other than EOS moves the position forward.
Consumes ==
    (lexed'.exc = "none" /\ lexed'.token.type # "EOS") => lexer'.input_pos > lexer.input_pos

ReturnedEOS == lexed.exc = "none" /\ lexed.token.type = "EOS"

\* C28: over a finite input the calls of next_token come to EOS, or to an
\* exception of the tokenizer, after finitely many calls, every token other
\* than EOS having consumed at least one character; and once EOS has been
\* returned every later call returns EOS.
C28_ReachesEOS ==
    /\ <>(ReturnedEOS \/ lexed.exc # "none")
    /\ [][Consumes /\ (ReturnedEOS => ReturnedEOS')]_vars

\* EOS after the three tokens of `a;#a`.
C28_Witness ==
    /\ ReturnedEOS
    /\ source_text = <<"a", ";", "#", "a">>
    /\ lexer.input_pos = Len(source_text)

\* ---------------------------------------------------------------- C29
\* No run of interpreter i is in progress and its last run ended this way.
RunEnded(i, how) == exists[i] /\ pc[i] = "idle" /\ outcome[i] = how

\* C29: a call of run leaves the tokenizer stack at the depth it had before
\* the call, when run returns and when it raises: the stack of an
\* interpreter, empty before its first run, is empty after each of its
\* runs, so that no tokenizer of a run that raised is left for
\* get_top_input_string to report.
C29_TokenizerStackDepth ==
    (RunEnded(1, "returned") \/ RunEnded(1, "raised")) => tokenizer_stack[1] = <<>>

\* ---------------------------------------------------------------- C30
\* C30: when run raises while a definition is being compiled
\* (MissingSemicolonError at EOS, UnknownWordError for a word of the body)
\* the interpreter is not left compiling, so that the tokens of the next run
\* are executed and not appended to the abandoned definition.
C30_NotLeftCompiling ==
    RunEnded(1, "raised") => (~is_compiling[1] /\ cur_definition[1] = NoDefinition)

\* ---------------------------------------------------------------- C31
ResolvedNames == {"TICK", "FAIL", "ZZ"}

\* C31: immediately after d = dup_interpreter(i) every name resolves in d
\* to the word it resolves to in i; a definition of the app module that
\* shadows a word imported by use_modules shadows it in d as well.
C31_Step ==
    DupInterpreter(1, 2) =>
        \A n \in ResolvedNames : find_word(World', 2, n).item = find_word(World', 1, n).item

C31_DuplicateResolves == [][C31_Step]_vars

\* ---------------------------------------------------------------- C32
\* What `x @` yields in interpreter i for the variable x of its app module.
AppValue(vs, ms, i, x) == vs[ms[app_module[i]].variables[x]].value

\* C32: after d = dup_interpreter(i), nothing run in d changes the value
\* `x @` yields in i for a variable x of the app module, definitions
\* compiled before the duplication that store to x included.
C32_Step ==
    (exists[2] /\ fetched'[2] # fetched[2]) =>
        \A x \in DOMAIN modules[app_module[1]].variables :
            AppValue(variables', modules', 1, x) = AppValue(variables, modules, 1, x)

C32_DuplicateVariables == [][C32_Step]_vars

\* ---------------------------------------------------------------- C33
\* What executing the words of a body adds to the depth of the module
\* stack: one for each StartModuleWord, minus one for each EndModuleWord,
\* and what the definitions it refers to add.
RECURSIVE NetDepth(_, _)
NetDepth(ws, body) ==
    IF body = <<>> THEN 0
    ELSE NetDepth(ws, Tail(body)) +
         (CASE Head(body).kind = "StartModuleWord" -> 1
            [] Head(body).kind = "EndModuleWord" -> -1
            [] Head(body).ref # 0 /\ ws[Head(body).ref].kind = "DefinitionWord" ->
                   NetDepth(ws, ws[Head(body).ref].words)
            [] OTHER -> 0)

\* Every `}` of the body closes a `{name` of the body, and none is left open.
Balanced(ws, body) ==
    /\ NetDepth(ws, body) = 0
    /\ \A k \in 1..Len(body) : NetDepth(ws, SubSeq(body, 1, k)) >= 0

\* The step dispatched a START_MODULE or END_MODULE token while a
\* definition was being compiled.
CompilesModuleToken(i, type) ==
    /\ pc[i] \in {"direct", "recovery"} /\ Compiling(World, i)
    /\ fetched'[i] = fetched[i] + 1
    /\ previous_token'[i].type = type

LastWord(i) == cur_definition'[i].words[Len(cur_definition'[i].words)]

AppendsOneWord(i) ==
    /\ Len(cur_definition'[i].words) = Len(cur_definition[i].words) + 1
    /\ SubSeq(cur_definition'[i].words, 1, Len(cur_definition[i].words)) = cur_definition[i].words

\* The module a `{name` pushes: the app module for the empty name, else a
\* module of that name.
PushesModule(i, name) ==
    /\ Len(module_stack'[i]) = Len(module_stack[i]) + 1
    /\ SubSeq(module_stack'[i], 1, Len(module_stack[i])) = module_stack[i]
    /\ LET top == module_stack'[i][Len(module_stack'[i])]
       IN IF name = "" THEN top = app_module[i] ELSE modules'[top].name = name

PopsModule(i) ==
    module_stack'[i] = SubSeq(module_stack[i], 1, Len(module_stack[i]) - 1)

\* The step executed the definition the WORD token `name` resolves to.
ExecutesDefinition(i, name) ==
    /\ ExecutesWord(i, name) /\ StillRunning(i)
    /\ words[Resolved(i, name)].kind = "DefinitionWord"

\* C33: a START_MODULE or END_MODULE token dispatched while a definition is
\* compiled pushes or pops the module at once and is appended to the
\* definition as well; every execution of a definition moves the depth of
\* the module stack by what its module words add, so that a definition
\* with balanced `{name` ... `}` leaves the module stack as it was, after
\* its compilation and after each execution.
C33_Step ==
    /\ \A name \in {"m", ""} :
           (CompilesModuleToken(1, "START_MODULE") /\ previous_token'[1].string = name
                /\ StillRunning(1)) =>
               /\ AppendsOneWord(1)
               /\ LastWord(1).kind = "StartModuleWord" /\ LastWord(1).name = name
               /\ PushesModule(1, name)
    /\ (CompilesModuleToken(1, "END_MODULE") /\ StillRunning(1)) =>
           /\ AppendsOneWord(1)
           /\ LastWord(1).kind = "EndModuleWord"
           /\ PopsModule(1)
    /\ ExecutesDefinition(1, "D") =>
           LET body == words[Resolved(1, "D")].words
           IN /\ Len(module_stack'[1]) = Len(module_stack[1]) + NetDepth(words, body)
              /\ Balanced(words, body) => module_stack'[1] = module_stack[1]

C33_ModuleTokensCompiled == [][C33_Step]_vars

\* `: D {m } ;` was compiled and D has been executed.
C33_Witness ==
    /\ pc[1] = "direct" /\ ~is_compiling[1]
    /\ previous_token[1].type = "WORD" /\ previous_token[1].string = "D"
    /\ Len(module_stack[1]) = 1
    /\ \E w \in 1..Len(words) :
           /\ words[w].kind = "DefinitionWord" /\ Len(words[w].words) = 2
           /\ words[w].words[1].kind = "StartModuleWord"
           /\ words[w].words[2].kind = "EndModuleWord"

\* ---------------------------------------------------------------- C34
BodyTokens == {"STRING", "DOT_SYMBOL", "START_ARRAY", "END_ARRAY", "WORD"}

\* The step dispatched a token of this type while a definition was being
\* compiled, and the handler returned.
CompilesToken(i, type) ==
    /\ pc[i] \in {"direct", "recovery"} /\ Compiling(World, i)
    /\ fetched'[i] = fetched[i] + 1
    /\ previous_token'[i].type = type
    /\ StillRunning(i)

\* The word a token of the body is compiled to.
CompiledAs(i, type, word) ==
    CASE type = "STRING" -> word.kind = "PushValueWord" /\ word.value.t = "pstr"
      [] type = "DOT_SYMBOL" -> word.kind = "PushValueWord" /\ word.value.t = "pstr"
      [] type = "START_ARRAY" -> word.kind = "PushValueWord" /\ word.value.t = "token"
      [] type = "END_ARRAY" -> word.kind = "EndArrayWord"
      [] type = "WORD" ->
             LET item == find_word(World, i, previous_token'[i].string).item
             IN word.ref = item.ref /\ word.kind = item.kind /\ word.name = item.name

\* The word lists of the modules.
ModuleWords(ms) == [m \in DOMAIN ms |-> ms[m].words]

\* The module on top of the module stack.
CurModule(i) == module_stack[i][Len(module_stack[i])]

\* C34: between START_DEF or START_MEMO and END_DEF each STRING,
\* DOT_SYMBOL, START_ARRAY, END_ARRAY and WORD token appends one word to
\* the definition, in token order, and executes nothing: the data stack
\* and the word lists of the modules stay as they are, so that the name
\* resolves as it did before the definition was begun, until END_DEF adds
\* the definition to the module then on top of the module stack.
C34_Step ==
    /\ \A type \in BodyTokens :
           CompilesToken(1, type) =>
               /\ AppendsOneWord(1) /\ CompiledAs(1, type, LastWord(1))
               /\ cur_definition'[1].name = cur_definition[1].name
               /\ stack'[1] = stack[1]
               /\ ModuleWords(modules') = ModuleWords(modules)
               /\ module_stack'[1] = module_stack[1]
               /\ is_compiling'[1]
    /\ \A type \in {"START_DEF", "START_MEMO"} :
           (fetched'[1] = fetched[1] + 1 /\ previous_token'[1].type = type /\ StillRunning(1)) =>
               /\ is_compiling'[1] /\ cur_definition'[1].words = <<>>
               /\ stack'[1] = stack[1]
               /\ ModuleWords(modules') = ModuleWords(modules)
    /\ CompilesToken(1, "END_DEF") =>
           LET name == cur_definition[1].name
               found == find_word(World', 1, name).item.ref
               added == IF is_memo_definition[1] THEN words'[found].target ELSE found
           IN /\ stack'[1] = stack[1]
              /\ found > Len(words)
              /\ \E k \in 1..Len(modules'[CurModule(1)].words) :
                     modules'[CurModule(1)].words[k] = found
              /\ words'[added].kind = "DefinitionWord"
              /\ words'[added].name = name
              /\ words'[added].words = cur_definition[1].words
              /\ \A m \in DOMAIN modules :
                     m # CurModule(1) => modules'[m].words = modules[m].words

C34_BodyCompiled == [][C34_Step]_vars

\* `: D 's' .x [ ]` has been compiled in this order, nothing on the stack.
C34_Witness ==
    /\ is_compiling[1] /\ cur_definition[1].name = "D" /\ stack[1] = <<>>
    /\ Len(cur_definition[1].words) = 4
    /\ cur_definition[1].words[1].value.s = "s"
    /\ cur_definition[1].words[2].value.s = "x"
    /\ cur_definition[1].words[3].value.t = "token"
    /\ cur_definition[1].words[4].kind = "EndArrayWord"

\* `@: K {m TICK ;` has added the memo K to the module m.
C34_MemoWitness ==
    /\ ~is_compiling[1] /\ previous_token[1].type = "END_DEF"
    /\ Len(module_stack[1]) = 2
    /\ find_word(World, 1, "K").item.ref # 0
    /\ words[find_word(World, 1, "K").item.ref].kind = "ModuleMemoWord"

\* ---------------------------------------------------------------- C35
\* C35: executing START_MODULE `{name` replaces no entry of the map of
\* registered modules: a module registered under name before is the module
\* find_module(name) returns afterwards.
C35_Step ==
    \A name \in RegistryNames :
        (HandleStartModuleToken(1, name) /\ find_module(World, 1, name) # 0) =>
            find_module(World', 1, name) = find_module(World, 1, name)

C35_RegistryEntryKept == [][C35_Step]_vars

\* ---------------------------------------------------------------- C36
\* What a word object is and does: its class, name, body, handler and the
\* word it wraps.
Compiled(w) ==
    [kind |-> w.kind, name |-> w.name, words |-> w.words,
     handler |-> w.handler, target |-> w.target]

\* C36: a WORD token of a definition body is resolved when the body is
\* compiled: one that does not resolve raises UnknownWordError then and
\* appends nothing, one that resolves appends the word it resolves to at
\* that moment; no later step, a newer definition of the same name
\* included, changes a word that exists, so that D, compiled as
\* `: D TICK ;`, goes on executing the TICK of its compilation.
C36_Step ==
    /\ \A n \in RedefineWords :
           (/\ pc[1] \in {"direct", "recovery"} /\ Compiling(World, 1)
            /\ fetched'[1] = fetched[1] + 1
            /\ previous_token'[1].type = "WORD" /\ previous_token'[1].string = n) =>
               IF find_word(World, 1, n).item = NoItem
               THEN /\ RaisedKind(1) = "UnknownWordError"
                    /\ cur_definition'[1].words = cur_definition[1].words
               ELSE /\ StillRunning(1) /\ AppendsOneWord(1)
                    /\ LastWord(1).ref = find_word(World, 1, n).item.ref
    /\ \A w \in 1..Len(words) : Compiled(words'[w]) = Compiled(words[w])
    /\ ExecutesWord(1, "D") =>
           /\ StillRunning(1)
           /\ stack'[1] = Append(stack[1], IntVal(ticks + 1))

C36_ResolvedAtCompileTime == [][C36_Step]_vars

\* D has been executed after `: TICK FAIL ;` defined a newer TICK.
C36_Witness ==
    /\ previous_token[1].type = "WORD" /\ previous_token[1].string = "D"
    /\ pc[1] = "direct" /\ Len(stack[1]) = 1
    /\ find_word(World, 1, "TICK").item.ref # 0
    /\ words[find_word(World, 1, "TICK").item.ref].kind = "DefinitionWord"
    /\ Len(words[find_word(World, 1, "TICK").item.ref].words) = 1

\* ---------------------------------------------------------------- C37
IsPrefix(s, t) == Len(s) <= Len(t) /\ SubSeq(t, 1, Len(s)) = s

\* The tokenizer of the run in progress.
TopTokenizer(ts, i) == ts[i][Len(ts[i])]

\* The step dispatched a token in a run under the recovery callback.
DispatchesInRecovery(i) == pc[i] = "recovery" /\ fetched'[i] = fetched[i] + 1

\* C37: in a run with an error handler, while attempts are left, a token
\* whose dispatch fails keeps what was done before it (the stack, the
\* words and the modules' word lists only grow) and leaves the tokenizer
\* of the run on the stack, past that token; when the handler returns the
\* run goes on with that tokenizer where it is and nothing else changed;
\* and each dispatch takes the token one past the last one taken, so that
\* no token is dispatched twice.
C37_Step ==
    /\ (HandleErrorReturns(1) /\ num_attempts[1] < max_attempts[1]) =>
           /\ pc'[1] = "recovery"
           /\ tokenizer_stack' = tokenizer_stack
           /\ stack' = stack /\ words' = words /\ modules' = modules
           /\ variables' = variables /\ module_stack' = module_stack
           /\ is_compiling' = is_compiling /\ cur_definition' = cur_definition
           /\ fetched' = fetched
    /\ (DispatchesInRecovery(1) /\ ~TopTokenizer(tokenizer_stack, 1).at_eos) =>
           /\ previous_token'[1].location.pos = TopTokenizer(tokenizer_stack, 1).pos + 1
           /\ pc'[1] # "idle" =>
                  /\ Len(tokenizer_stack'[1]) = Len(tokenizer_stack[1])
                  /\ TopTokenizer(tokenizer_stack', 1).source = TopTokenizer(tokenizer_stack, 1).source
                  /\ TopTokenizer(tokenizer_stack', 1).pos = TopTokenizer(tokenizer_stack, 1).pos + 1
    /\ (DispatchesInRecovery(1) /\ pc'[1] = "handler") =>
           /\ IsPrefix(stack[1], stack'[1])
           /\ IsPrefix(words, words')
           /\ \A m \in DOMAIN modules : IsPrefix(modules[m].words, modules'[m].words)

AfterReset(i) == modules[app_module[i]].variables = EmptyMap

\* C38: after reset() no Forthic code reads a value that was stored in a
\* variable of the app module before the reset, not through a definition
\* compiled before the reset either: the 42 stored in x before the reset
\* is on no stack afterwards.
C38_StoredValuesDropped ==
    AfterReset(1) => \A k \in 1..Len(stack[1]) : stack[1][k] # IntVal(42)

\* ---------------------------------------------------------------- C39
\* The zone of a date-time value.
ZoneOf(value) == value.items[1].s

\* The step dispatched a WORD token that is executed.
ExecutesLiteral(i, name) ==
    /\ pc[i] \in {"direct", "recovery"} /\ ~is_compiling[i]
    /\ fetched'[i] = fetched[i] + 1
    /\ previous_token'[i].type = "WORD" /\ previous_token'[i].string = name

\* C39: a zoned date-time literal written without a zone gets the timezone
\* get_timezone() returns when the literal is parsed, also after
\* set_timezone has changed it.
C39_Step ==
    \A dt \in DateTimes :
        (ExecutesLiteral(1, dt) /\ StillRunning(1)) =>
            /\ stack'[1][Len(stack'[1])].t = "datetime"
            /\ ZoneOf(stack'[1][Len(stack'[1])]) = timezone[1]

C39_ConfiguredTimezone == [][C39_Step]_vars

\* ---------------------------------------------------------------- C40
\* The words a word executes: the body of a definition, the word a memo
\* word or an import wrapper wraps.
SubWords(ws, w) ==
    {ws[w].words[k].ref : k \in {j \in 1..Len(ws[w].words) : ws[w].words[j].ref # 0}}
        \cup (IF ws[w].target # 0 THEN {ws[w].target} ELSE {})

\* The words reached from the words of S through sub-words, S included.
RECURSIVE Reached(_, _)
Reached(ws, S) ==
    LET T == S \cup UNION {SubWords(ws, w) : w \in S}
    IN IF T = S THEN S ELSE Reached(ws, T)

Contained(ws, w) == Reached(ws, SubWords(ws, w))

NoSelfContainment == \A w \in 1..Len(words) : w \notin Contained(words, w)

\* The step dispatched the name of the definition being compiled as a WORD
\* token of its body.
CompilesOwnName(i) ==
    /\ pc[i] \in {"direct", "recovery"} /\ Compiling(World, i)
    /\ fetched'[i] = fetched[i] + 1
    /\ previous_token'[i].type = "WORD"
    /\ previous_token'[i].string = cur_definition[i].name

\* C40: no word contains itself among its sub-words, directly or through
\* definitions, memo words and import wrappers; in the body of a
\* definition its own name raises UnknownWordError or is compiled to a
\* word that existed before, the one the name resolved to then.
C40_Step ==
    CompilesOwnName(1) =>
        IF find_word(World, 1, cur_definition[1].name).item = NoItem
        THEN RaisedKind(1) = "UnknownWordError"
        ELSE /\ AppendsOneWord(1)
             /\ LastWord(1).ref = find_word(World, 1, cur_definition[1].name).item.ref
             /\ LastWord(1).ref <= Len(words)

C40_NoSelfReference == []NoSelfContainment /\ [][C40_Step]_vars

\* `: D D ;` was run where a D existed: the new D, which the name now
\* resolves to, has the older D as its body.
C40_Witness ==
    /\ ~is_compiling[1]
    /\ \E w \in 1..Len(words) :
           /\ find_word(World, 1, "D").item.ref = w
           /\ words[w].kind = "DefinitionWord" /\ Len(words[w].words) = 1
           /\ words[w].words[1].ref # 0
           /\ words[words[w].words[1].ref].name = "D"

====
